---- MODULE Spec2Model ----
(***************************************************************************)
(* Hybrid retrieval and ranking engine of the support mail assistant       *)
(* (src/app/rag.py): document chunker, French lexical normaliser, lexical  *)
(* scorer, index rebuild, and score fusion with the two guarantee splices. *)
(*                                                                         *)
(* A Python str is a sequence of one-character strings, so that slicing,   *)
(* suffix tests, containment and code-point ordering are computed as the   *)
(* code computes them.                                                     *)
(***************************************************************************)
EXTENDS Integers, Sequences, FiniteSets, TLC

VARIABLES kb, index, call

vars == <<kb, index, call>>

(***************************************************************************)
(* Characters                                                              *)
(***************************************************************************)

\* ord(c) for the characters of the modelled alphabet.
CodePoint ==
       "\n" :> 10 @@ " " :> 32 @@ "'" :> 39 @@ "." :> 46 @@ "0" :> 48 @@ "1" :> 49 @@
       "2" :> 50 @@ "3" :> 51 @@ "4" :> 52 @@ "5" :> 53 @@ "6" :> 54 @@ "7" :> 55 @@
       "8" :> 56 @@ "9" :> 57 @@ "A" :> 65 @@ "B" :> 66 @@ "C" :> 67 @@ "D" :> 68 @@
       "E" :> 69 @@ "F" :> 70 @@ "G" :> 71 @@ "H" :> 72 @@ "I" :> 73 @@ "J" :> 74 @@
       "K" :> 75 @@ "L" :> 76 @@ "M" :> 77 @@ "N" :> 78 @@ "O" :> 79 @@ "P" :> 80 @@
       "Q" :> 81 @@ "R" :> 82 @@ "S" :> 83 @@ "T" :> 84 @@ "U" :> 85 @@ "V" :> 86 @@
       "W" :> 87 @@ "X" :> 88 @@ "Y" :> 89 @@ "Z" :> 90 @@ "a" :> 97 @@ "b" :> 98 @@
       "c" :> 99 @@ "d" :> 100 @@ "e" :> 101 @@ "f" :> 102 @@ "g" :> 103 @@ "h" :> 104 @@
       "i" :> 105 @@ "j" :> 106 @@ "k" :> 107 @@ "l" :> 108 @@ "m" :> 109 @@ "n" :> 110 @@
       "o" :> 111 @@ "p" :> 112 @@ "q" :> 113 @@ "r" :> 114 @@ "s" :> 115 @@ "t" :> 116 @@
       "u" :> 117 @@ "v" :> 118 @@ "w" :> 119 @@ "x" :> 120 @@ "y" :> 121 @@ "z" :> 122 @@
       "É" :> 201 @@ "à" :> 224 @@ "ç" :> 231 @@ "è" :> 232 @@ "é" :> 233

LowerOf ==
       "A" :> "a" @@ "B" :> "b" @@ "C" :> "c" @@ "D" :> "d" @@ "E" :> "e" @@ "F" :> "f" @@
       "G" :> "g" @@ "H" :> "h" @@ "I" :> "i" @@ "J" :> "j" @@ "K" :> "k" @@ "L" :> "l" @@
       "M" :> "m" @@ "N" :> "n" @@ "O" :> "o" @@ "P" :> "p" @@ "Q" :> "q" @@ "R" :> "r" @@
       "S" :> "s" @@ "T" :> "t" @@ "U" :> "u" @@ "V" :> "v" @@ "W" :> "w" @@ "X" :> "x" @@
       "Y" :> "y" @@ "Z" :> "z" @@ "É" :> "é"

Unaccented ==
       "É" :> "E" @@ "à" :> "a" @@ "ç" :> "c" @@ "è" :> "e" @@ "é" :> "e"

Min(a, b) == IF a <= b THEN a ELSE b

Max(a, b) == IF a >= b THEN a ELSE b

\* str.lower() on one character.
LowerChar(c) == IF c \in DOMAIN LowerOf THEN LowerOf[c] ELSE c

\* NFKD decomposition of one character with the combining marks dropped.
StripChar(c) == IF c \in DOMAIN Unaccented THEN Unaccented[c] ELSE c

\* The code points of the character class [A-Za-zÀ-ÿ0-9] of the tokenizer.
TokenCode(n) ==
    \/ (n >= 65 /\ n <= 90)
    \/ (n >= 97 /\ n <= 122)
    \/ (n >= 192 /\ n <= 255)
    \/ (n >= 48 /\ n <= 57)

IsTokenChar(c) == TokenCode(CodePoint[c])

\* \s and str.strip() whitespace.
IsSpace(c) == c \in {" ", "\n", "\t", "\r", "\f"}

\* \d
IsDigit(c) == c \in {"0", "1", "2", "3", "4", "5", "6", "7", "8", "9"}

(***************************************************************************)
(* Strings                                                                 *)
(***************************************************************************)

Lower(s) == [i \in 1..Len(s) |-> LowerChar(s[i])]

_strip_accents(s) == [i \in 1..Len(s) |-> StripChar(s[i])]

_norm(s) == _strip_accents(Lower(s))

\* s[i:j] with 0-based half-open Python indices, 0 <= i.
Slice(s, i, j) == SubSeq(s, i + 1, Min(j, Len(s)))

\* s.endswith(suf)
EndsWith(s, suf) ==
    /\ Len(suf) <= Len(s)
    /\ SubSeq(s, Len(s) - Len(suf) + 1, Len(s)) = suf

\* seq[:k] for k >= 0.
TopK(seq, k) == SubSeq(seq, 1, Min(k, Len(seq)))

\* sub in s
Contains(sub, s) ==
    \E i \in 1..(Len(s) - Len(sub) + 1) : SubSeq(s, i, i + Len(sub) - 1) = sub

\* a < b on Python str: lexicographic on code points.
RECURSIVE StrLess(_, _)
StrLess(a, b) ==
    IF b = <<>> THEN FALSE
    ELSE IF a = <<>> THEN TRUE
    ELSE IF Head(a) = Head(b) THEN StrLess(Tail(a), Tail(b))
    ELSE CodePoint[Head(a)] < CodePoint[Head(b)]

\* s.strip()
RECURSIVE LStrip(_)
LStrip(s) == IF s # <<>> /\ IsSpace(Head(s)) THEN LStrip(Tail(s)) ELSE s

RECURSIVE RStrip(_)
RStrip(s) ==
    IF s # <<>> /\ IsSpace(s[Len(s)]) THEN RStrip(SubSeq(s, 1, Len(s) - 1)) ELSE s

Strip(s) == RStrip(LStrip(s))

\* text.split("\n\n"): the pieces between non-overlapping separators,
\* scanned left to right.
RECURSIVE SplitParas(_, _)
SplitParas(s, cur) ==
    IF s = <<>> THEN <<cur>>
    ELSE IF Len(s) >= 2 /\ s[1] = "\n" /\ s[2] = "\n"
         THEN <<cur>> \o SplitParas(SubSeq(s, 3, Len(s)), <<>>)
         ELSE SplitParas(Tail(s), Append(cur, Head(s)))

(***************************************************************************)
(* Document chunker                                                        *)
(***************************************************************************)

\* Default max_len of _chunk_markdown.
DefaultMaxLen == 600

\* The while loop of _chunk_markdown on one stripped paragraph.
RECURSIVE ChunkPara(_, _)
ChunkPara(para, max_len) ==
    IF Len(para) > max_len
    THEN <<Strip(Slice(para, 0, max_len))>>
         \o ChunkPara(Slice(para, max_len, Len(para)), max_len)
    ELSE IF para # <<>> THEN <<para>> ELSE <<>>

\* The for loop of _chunk_markdown; an empty stripped paragraph gives nothing.
RECURSIVE ChunkParas(_, _)
ChunkParas(paras, max_len) ==
    IF paras = <<>> THEN <<>>
    ELSE ChunkPara(Strip(Head(paras)), max_len) \o ChunkParas(Tail(paras), max_len)

_chunk_markdown(text, max_len) == ChunkParas(SplitParas(text, <<>>), max_len)

(***************************************************************************)
(* Lexical normaliser and scorer                                           *)
(***************************************************************************)

_FR_SUFFIXES ==
    << <<"a", "t", "i", "o", "n", "s">>, <<"a", "t", "i", "o", "n">>,
       <<"t", "i", "o", "n", "s">>, <<"t", "i", "o", "n">>,
       <<"e", "m", "e", "n", "t", "s">>, <<"e", "m", "e", "n", "t">>,
       <<"m", "e", "n", "t", "s">>, <<"m", "e", "n", "t">>,
       <<"é", "e", "s">>, <<"é", "s">>, <<"e", "e", "s">>, <<"e", "s">>,
       <<"é", "e">>, <<"é">>, <<"e", "e">>, <<"e">>,
       <<"e", "r">>, <<"r", "e">>, <<"s">> >>

\* re.findall(r"[A-Za-zÀ-ÿ0-9]+", text.lower()): maximal runs.
RECURSIVE TokenRuns(_, _)
TokenRuns(s, cur) ==
    IF s = <<>> THEN (IF cur = <<>> THEN <<>> ELSE <<cur>>)
    ELSE IF IsTokenChar(Head(s))
         THEN TokenRuns(Tail(s), Append(cur, Head(s)))
         ELSE (IF cur = <<>> THEN <<>> ELSE <<cur>>) \o TokenRuns(Tail(s), <<>>)

_tokenize(text) == TokenRuns(Lower(text), <<>>)

\* The for loop of _stem_fr from suffix number i on.
\* t.endswith(suf) and len(t) > len(suf) + 2
Strippable(t, suf) == EndsWith(t, suf) /\ Len(t) > Len(suf) + 2

\* t[: -len(suf)]
Stripped(t, suf) == SubSeq(t, 1, Len(t) - Len(suf))

RECURSIVE StemFrom(_, _)
StemFrom(t, i) ==
    IF i > Len(_FR_SUFFIXES) THEN t
    ELSE IF Strippable(t, _FR_SUFFIXES[i]) THEN Stripped(t, _FR_SUFFIXES[i])
    ELSE StemFrom(t, i + 1)

_stem_fr(tok) == StemFrom(_strip_accents(tok), 1)

\* The stems of all the tokens, the short ones included.
StemSetAll(toks) == {_stem_fr(toks[i]) : i \in 1..Len(toks)}

\* {_stem_fr(t) for t in toks if len(t) >= 3}
StemSet(toks) ==
    {_stem_fr(toks[i]) : i \in {j \in 1..Len(toks) : Len(toks[j]) >= 3}}

Stems(text) == StemSet(_tokenize(text))

\* _lexical_score once q_stems is known.
ScoreOf(q_stems, text) ==
    IF q_stems = {} THEN 0 ELSE Cardinality(q_stems \cap Stems(text))

_lexical_score(query, text) == ScoreOf(Stems(query), text)

\* First position at or after i that does not satisfy the class.
RECURSIVE SkipSpaces(_, _)
SkipSpaces(text, i) ==
    IF i <= Len(text) /\ IsSpace(text[i]) THEN SkipSpaces(text, i + 1) ELSE i

RECURSIVE SkipDigits(_, _)
SkipDigits(text, i) ==
    IF i <= Len(text) /\ IsDigit(text[i]) THEN SkipDigits(text, i + 1) ELSE i

\* _NUM_LINE_RE = ^\s*\d+\.\s with re.MULTILINE, used with search(): from
\* some line start, whitespace, then digits, a full stop and a whitespace.
\* The three classes are disjoint, so the greedy scan finds every match.
\* \d+\.\s with the digits from j up to m.
StepEnds(text, j, m) ==
    /\ m > j
    /\ m + 1 <= Len(text)
    /\ text[m] = "."
    /\ IsSpace(text[m + 1])

StepFrom(text, j) == StepEnds(text, j, SkipDigits(text, j))

_is_numbered_steps(text) ==
    \E i \in 1..Len(text) :
        /\ (i = 1 \/ text[i - 1] = "\n")
        /\ StepFrom(text, SkipSpaces(text, i))

(***************************************************************************)
(* Bounds and the input universe                                           *)
(***************************************************************************)

\* Largest k passed to retrieve_snippets.
MaxK == 2

\* Largest distance the vector provider reports.
MaxDist == 1

\* Knowledge-base file names (str(p) of the *.md paths).
FileA ==
    <<"a", ".", "m", "d">>

FileB ==
    <<"b", ".", "m", "d">>

Files == {FileA, FileB}

\* Document texts: a guide of two paragraphs (numbered steps, then plain), the
\* reset-link note, and a document that repeats a paragraph.
TxtGuide ==
    <<"1", ".", " ", "e", "r", "r", "e", "u", "r", "\n", "\n", "e", "r",
      "r", "e", "u", "r", " ", "5", "0", "2">>

TxtReset ==
    <<"L", "i", "e", "n", " ", "d", "e", " ", "r", "é", "i", "n", "i", "t",
      "i", "a", "l", "i", "s", "a", "t", "i", "o", "n">>

TxtNotes ==
    <<"n", "o", "t", "e", "\n", "\n", "n", "o", "t", "e">>

\* A document of white space only: it gives no chunk.
TxtBlank == <<" ">>

DocTexts == {TxtGuide, TxtReset, TxtNotes, TxtBlank}

\* Query strings.
QryIncident ==
    <<"e", "r", "r", "e", "u", "r", " ", "5", "0", "2">>

QryError ==
    <<"E", "r", "r", "e", "u", "r">>

QryOther ==
    <<"m", "o", "t">>

Queries == {QryIncident, QryError, QryOther}

(***************************************************************************)
(* The texts of the universe and what the scorer says of them, computed    *)
(* once                                                                    *)
(***************************************************************************)

Range(seq) == {seq[i] : i \in 1..Len(seq)}

\* The chunk strings the documents of the universe are cut into.
ChunkTexts ==
    UNION {{Strip(c) : c \in Range(_chunk_markdown(t, DefaultMaxLen))} : t \in DocTexts}

ChunkCache == [t \in DocTexts |-> _chunk_markdown(t, DefaultMaxLen)]

ScoreCache == [q \in Queries, c \in ChunkTexts |-> _lexical_score(q, c)]

StepsCache == {c \in ChunkTexts : _is_numbered_steps(c)}

\* _chunk_markdown(text), _lexical_score and _is_numbered_steps, looked up
\* for the texts of the universe and computed for any other.
Chunks(text) ==
    IF text \in DocTexts THEN ChunkCache[text] ELSE _chunk_markdown(text, DefaultMaxLen)

LexicalScore(query, text) ==
    IF query \in Queries /\ text \in ChunkTexts THEN ScoreCache[query, text]
    ELSE _lexical_score(query, text)

NumberedSteps(text) ==
    IF text \in ChunkTexts THEN text \in StepsCache ELSE _is_numbered_steps(text)

(***************************************************************************)
(* Knowledge base and index                                                *)
(***************************************************************************)

\* sorted(kb_dir.glob("*.md")) over the files present in the directory.
Least(S) == CHOOSE x \in S : \A y \in S \ {x} : StrLess(x, y)

RECURSIVE SortedPaths(_)
SortedPaths(S) ==
    IF S = {} THEN <<>>
    ELSE <<Least(S)>> \o SortedPaths(S \ {Least(S)})

\* The inner loop of _read_kb_docs on the chunks of one file.
RECURSIVE FileItems(_, _)
FileItems(src, chunks) ==
    IF chunks = <<>> THEN <<>>
    ELSE (IF Strip(Head(chunks)) # <<>>
          THEN <<[source |-> src, chunk |-> Strip(Head(chunks))]>>
          ELSE <<>>)
         \o FileItems(src, Tail(chunks))

RECURSIVE ReadPaths(_, _)
ReadPaths(dir, paths) ==
    IF paths = <<>> THEN <<>>
    ELSE FileItems(Head(paths), Chunks(dir[Head(paths)]))
         \o ReadPaths(dir, Tail(paths))

_read_kb_docs(dir) == ReadPaths(dir, SortedPaths(DOMAIN dir))

\* What add_texts stores for the documents read: one entry per chunk.
IndexOf(docs) ==
    [i \in 1..Len(docs) |-> [content |-> docs[i].chunk, source |-> docs[i].source]]

(***************************************************************************)
(* Vector similarity provider                                              *)
(***************************************************************************)

\* Least number of hits asked of the provider: k = max(k, 5).
MinFetch == 5

\* The entries of the index with the distance the provider gives each.
Scored(idx, dist) ==
    [i \in 1..Len(idx) |->
        [content |-> idx[i].content, score |-> dist[i], source |-> idx[i].source]]

RECURSIVE InsertByScore(_, _)
InsertByScore(seq, h) ==
    IF seq = <<>> THEN <<h>>
    ELSE IF h.score < Head(seq).score THEN <<h>> \o seq
         ELSE <<Head(seq)>> \o InsertByScore(Tail(seq), h)

RECURSIVE ByScore(_)
ByScore(seq) ==
    IF seq = <<>> THEN <<>>
    ELSE InsertByScore(ByScore(SubSeq(seq, 1, Len(seq) - 1)), seq[Len(seq)])

\* similarity_search_with_score(query, k=n): the n nearest entries, nearest
\* first.
similarity_search_with_score(idx, dist, n) == TopK(ByScore(Scored(idx, dist)), n)

(***************************************************************************)
(* Score fusion                                                            *)
(***************************************************************************)

\* Sentinel "worst" vector score of the merge map's default entry.
Sentinel == 1000000000

\* Position of key (content, source) in the merge map from position i on, 0
\* when absent.  The map is kept in insertion order, as a Python dict is.
RECURSIVE KeyPosFrom(_, _, _, _)
KeyPosFrom(combined, content, source, i) ==
    IF i > Len(combined) THEN 0
    ELSE IF combined[i].content = content /\ combined[i].source = source THEN i
    ELSE KeyPosFrom(combined, content, source, i + 1)

KeyPos(combined, content, source) == KeyPosFrom(combined, content, source, 1)

\* Touch without the lookup: an entry is created on every access.
TouchAlways(combined, content, source) ==
    Append(combined,
           [content |-> content, source |-> source, lex |-> 0, v |-> Sentinel])

\* combined[key] of the defaultdict: the entry, created as (0, 1e9) when the
\* key is new.
Touch(combined, content, source) ==
    IF KeyPos(combined, content, source) # 0 THEN combined
    ELSE Append(combined,
                [content |-> content, source |-> source, lex |-> 0, v |-> Sentinel])

\* combined[key] = (lex, min(vscore, combined[key][1])) at position p.
SetVector(m, p, vscore) == [m EXCEPT ![p].v = Min(vscore, m[p].v)]

\* combined[key] = (max(lex, combined[key][0]), vscore) at position p.
SetLex(m, p, lex) == [m EXCEPT ![p].lex = Max(lex, m[p].lex)]

\* combined[(chunk, src)] = (0, 1e9) at position p.
SetWorst(m, p) == [m EXCEPT ![p].lex = 0, ![p].v = Sentinel]

\* One turn of the loop over vector_candidates.
MergeOneVector(m, c) == SetVector(m, KeyPos(m, c.content, c.source), c.score)

RECURSIVE MergeVector(_, _)
MergeVector(combined, cands) ==
    IF cands = <<>> THEN combined
    ELSE MergeVector(
            MergeOneVector(Touch(combined, Head(cands).content, Head(cands).source),
                           Head(cands)),
            Tail(cands))

\* One turn of the loop over lex_candidates.
MergeOneLex(m, c) == SetLex(m, KeyPos(m, c.content, c.source), c.lex)

RECURSIVE MergeLex(_, _)
MergeLex(combined, cands) ==
    IF cands = <<>> THEN combined
    ELSE MergeLex(
            MergeOneLex(Touch(combined, Head(cands).content, Head(cands).source),
                        Head(cands)),
            Tail(cands))

\* What the lexical pass appends for one corpus chunk with overlap lex: the
\* chunk with the +1 bonus for numbered steps, or nothing when lex is 0.
LexCandidate(d, lex) ==
    IF lex > 0
    THEN <<[content |-> d.chunk,
            lex |-> IF NumberedSteps(d.chunk) THEN lex + 1 ELSE lex,
            source |-> d.source]>>
    ELSE <<>>

\* The lexical pass over the corpus.
RECURSIVE LexCandidates(_, _)
LexCandidates(query, docs) ==
    IF docs = <<>> THEN <<>>
    ELSE LexCandidate(Head(docs), LexicalScore(query, Head(docs).chunk))
         \o LexCandidates(query, Tail(docs))

\* One turn of the fallback loop.
FallbackOne(m, d) == SetWorst(m, KeyPos(m, d.chunk, d.source))

\* The fallback loop: every corpus chunk at (0, 1e9).
RECURSIVE Fallback(_, _)
Fallback(combined, docs) ==
    IF docs = <<>> THEN combined
    ELSE Fallback(FallbackOne(Touch(combined, Head(docs).chunk, Head(docs).source),
                              Head(docs)),
                  Tail(docs))

\* if not combined: the fallback loop.
OrFallback(merged, docs) == IF merged = <<>> THEN Fallback(<<>>, docs) ELSE merged

\* The merge map at the point of ranking.
Combined(query, docs, hits) ==
    OrFallback(MergeLex(MergeVector(<<>>, hits), LexCandidates(query, docs)), docs)

\* Snippet(content=c, source=s, score=(1 - LexicalScore(query, c)) + v)
Snippet(query, e) ==
    [content |-> e.content, source |-> e.source,
     score |-> (1 - LexicalScore(query, e.content)) + e.v]

\* The sort key (-_lexical_score(query, sn.content), sn.score, sn.source,
\* sn.content) of a snippet.
SortKey(query, sn) ==
    <<0 - LexicalScore(query, sn.content), sn.score, sn.source, sn.content>>

\* The key comparison without the source and content tie-break.
KeyLessNoTie(x, y) ==
    \/ x[1] < y[1]
    \/ (x[1] = y[1] /\ x[2] < y[2])

\* x < y as Python compares the key tuples.
KeyLess(x, y) ==
    \/ x[1] < y[1]
    \/ /\ x[1] = y[1]
       /\ \/ x[2] < y[2]
          \/ /\ x[2] = y[2]
             /\ \/ StrLess(x[3], y[3])
                \/ /\ x[3] = y[3]
                   /\ StrLess(x[4], y[4])

\* sorted() is stable: an element goes before the first one it is less than.
\* The elements are (key, snippet) pairs.
RECURSIVE InsertSorted(_, _)
InsertSorted(seq, x) ==
    IF seq = <<>> THEN <<x>>
    ELSE IF KeyLess(x[1], Head(seq)[1]) THEN <<x>> \o seq
    ELSE <<Head(seq)>> \o InsertSorted(Tail(seq), x)

RECURSIVE SortPairs(_)
SortPairs(seq) ==
    IF seq = <<>> THEN <<>>
    ELSE InsertSorted(SortPairs(SubSeq(seq, 1, Len(seq) - 1)), seq[Len(seq)])

Keyed(query, sn) == <<SortKey(query, sn), sn>>

Unkeyed(pairs) == [i \in 1..Len(pairs) |-> pairs[i][2]]

\* sorted(snippets, key=...)
Sorted(query, snippets) ==
    Unkeyed(SortPairs([i \in 1..Len(snippets) |-> Keyed(query, snippets[i])]))

\* The snippets of the merge map, in the order of its keys.
Snippets(query, combined) ==
    [i \in 1..Len(combined) |-> Snippet(query, combined[i])]

\* items: the ranked list.
Items(query, docs, hits) == Sorted(query, Snippets(query, Combined(query, docs, hits)))

(***************************************************************************)
(* Guarantee splices                                                       *)
(***************************************************************************)

\* The reset-link phrase, before _norm.
ResetPhrase ==
    <<"l", "i", "e", "n", " ", "d", "e", " ", "r", "é", "i", "n", "i", "t",
      "i", "a", "l", "i", "s", "a", "t", "i", "o", "n">>

\* A list under construction, or the exception that ended the call.
Ok(top) == [raised |-> FALSE, top |-> top]

Raised == [raised |-> TRUE, top |-> <<>>]

\* all(not (x.content == s.content and x.source == s.source) for s in top)
NotIn(x, top) ==
    \A i \in 1..Len(top) : ~(x.content = top[i].content /\ x.source = top[i].source)

\* The splice writing the first slot instead of the last one.
SpliceFirst(top, k, x) ==
    IF Len(top) = k
    THEN IF top = <<>> THEN Raised ELSE Ok([top EXCEPT ![1] = x])
    ELSE Ok(Append(top, x))

\* The splice that appends whatever the length of top.
SpliceAppend(top, k, x) == Ok(Append(top, x))

\* top[-1] = x when len(top) == k (an IndexError on an empty list), else
\* top.append(x).
Splice(top, k, x) ==
    IF Len(top) = k
    THEN IF top = <<>> THEN Raised ELSE Ok([top EXCEPT ![Len(top)] = x])
    ELSE Ok(Append(top, x))

\* The for loop of step (1): the first snippet from position i on with a
\* numbered-step line and a positive score, as a position, 0 when none.
RECURSIVE FirstStepFrom(_, _, _)
FirstStepFrom(query, items, i) ==
    IF i > Len(items) THEN 0
    ELSE IF NumberedSteps(items[i].content)
            /\ LexicalScore(query, items[i].content) > 0
         THEN i
    ELSE FirstStepFrom(query, items, i + 1)

FirstStep(query, items) == FirstStepFrom(query, items, 1)

\* phrase in _norm(content)
HasPhrase(content) == Contains(_norm(ResetPhrase), _norm(content))

\* next(sn for sn in items if phrase in _norm(sn.content)), as a position.
RECURSIVE FirstPhraseFrom(_, _)
FirstPhraseFrom(items, i) ==
    IF i > Len(items) THEN 0
    ELSE IF HasPhrase(items[i].content) THEN i
    ELSE FirstPhraseFrom(items, i + 1)

FirstPhrase(items) == FirstPhraseFrom(items, 1)

\* if cand: if cand is not in top: splice it in.  c is a position of items,
\* 0 for None.
SpliceFound(top, k, items, c) ==
    IF c # 0 /\ NotIn(items[c], top) THEN Splice(top, k, items[c]) ELSE Ok(top)

\* Step (1) without its two guards: the candidate is spliced in whatever top
\* holds.
Step4Blind(query, k, items, top) ==
    IF FirstStep(query, items) # 0
    THEN Splice(top, k, items[FirstStep(query, items)])
    ELSE Ok(top)

\* (1) at least one relevant numbered-steps paragraph.
Step4(query, k, items, top) ==
    IF \E i \in 1..Len(top) : NumberedSteps(top[i].content) THEN Ok(top)
    ELSE SpliceFound(top, k, items, FirstStep(query, items))

\* (2) the reset-link phrase.
Step5(k, items, top) ==
    IF \E i \in 1..Len(top) : HasPhrase(top[i].content) THEN Ok(top)
    ELSE SpliceFound(top, k, items, FirstPhrase(items))

\* The decimal digits of a natural number.
DigitChar(d) == <<"0", "1", "2", "3", "4", "5", "6", "7", "8", "9">>[d + 1]

RECURSIVE Digits(_)
Digits(n) ==
    IF n < 10 THEN <<DigitChar(n)>>
    ELSE Append(Digits(n \div 10), DigitChar(n % 10))

\* f"{score:.6f}" of a score with no fractional part.
Format6(score) ==
    (IF score < 0 THEN <<"-">> \o Digits(0 - score) ELSE Digits(score))
    \o <<".", "0", "0", "0", "0", "0", "0">>

\* The emitted list: top[:k] as {content, source, score}.
Emit(top, k) ==
    [i \in 1..Min(k, Len(top)) |->
        [content |-> top[i].content, source |-> top[i].source,
         score |-> Format6(top[i].score)]]

\* The end of retrieve_snippets, from the result of step (2).
Finish(s5, k) == IF s5.raised THEN Raised ELSE Ok(Emit(s5.top, k))

\* retrieve_snippets from the result of step (1).
AfterStep4(s4, k, items) ==
    IF s4.raised THEN Raised ELSE Finish(Step5(k, items, s4.top), k)

\* retrieve_snippets from the ranking on, for k >= 0.
Ranked(query, k, items) ==
    AfterStep4(Step4(query, k, items, TopK(items, k)), k, items)

\* retrieve_snippets once the provider has answered with hits.
retrieve_snippets(query, k, dir, hits) ==
    Ranked(query, k, Items(query, _read_kb_docs(dir), hits))

(***************************************************************************)
(* State machine                                                           *)
(***************************************************************************)

\* kb: the knowledge-base directory, file name -> text.
\* index: the persisted vector index, one entry per stored chunk.
\* call: the operation that ran last, with its inputs and its outcome.

Done(op, raised) ==
    [op |-> op, query |-> <<>>, k |-> 0, fault |-> "none", hits |-> <<>>,
     raised |-> raised, out |-> <<>>]

Init ==
    /\ kb = <<>>
    /\ index = <<>>
    /\ call = Done("none", FALSE)

\* A document is written to the knowledge-base directory.
WriteDoc(f, t) ==
    /\ kb' = [x \in (DOMAIN kb) \cup {f} |-> IF x = f THEN t ELSE kb[x]]
    /\ call' = Done("write", FALSE)
    /\ UNCHANGED index

\* A document is removed from the knowledge-base directory.
RemoveDoc(f) ==
    /\ f \in DOMAIN kb
    /\ kb' = [x \in (DOMAIN kb) \ {f} |-> kb[x]]
    /\ call' = Done("remove", FALSE)
    /\ UNCHANGED index

\* A build that leaves the persisted directory in place and adds to it.
BuildIndexKeeps ==
    /\ index' = index \o IndexOf(_read_kb_docs(kb))
    /\ call' = Done("build_index", FALSE)
    /\ UNCHANGED kb

\* build_index: the persisted directory is removed and repopulated.
BuildIndex ==
    /\ index' = IndexOf(_read_kb_docs(kb))
    /\ call' = Done("build_index", FALSE)
    /\ UNCHANGED kb

\* build_index when the embedding model cannot be constructed: the persisted
\* directory has already been removed and recreated empty.
BuildIndexFails ==
    /\ index' = <<>>
    /\ call' = Done("build_index", TRUE)
    /\ UNCHANGED kb

\* retrieve_snippets reads kb and index and changes neither, so a query that
\* follows a query starts where the first one started; queries are taken
\* from the states another operation has left.
Idle == call.op # "retrieve"

\* The record of a query: its inputs, the provider's answer and the outcome r.
Answer(q, k, fault, hits, r) ==
    [op |-> "retrieve", query |-> q, k |-> k, fault |-> fault, hits |-> hits,
     raised |-> r.raised, out |-> r.top]

\* retrieve_snippets after the provider has answered with hits.
Query(q, k, fault, hits) == Answer(q, k, fault, hits, retrieve_snippets(q, k, kb, hits))

\* retrieve_snippets with a working provider.
Retrieve(q, k) ==
    /\ Idle
    /\ \E dist \in [1..Len(index) -> 0..MaxDist] :
          call' = Query(q, k, "none",
                        similarity_search_with_score(index, dist, Max(k, MinFetch)))
    /\ UNCHANGED <<kb, index>>

\* retrieve_snippets when similarity_search_with_score raises: the except
\* clause leaves vector_candidates empty.
RetrieveSearchFails(q, k) ==
    /\ Idle
    /\ call' = Query(q, k, "search", <<>>)
    /\ UNCHANGED <<kb, index>>

\* retrieve_snippets when FastEmbedEmbeddings() or Chroma() raises: both
\* are constructed before the try block.
RetrieveOpenFails(q, k) ==
    /\ Idle
    /\ call' = Answer(q, k, "open", <<>>, Raised)
    /\ UNCHANGED <<kb, index>>

Next ==
    \/ \E f \in Files, t \in DocTexts : WriteDoc(f, t)
    \/ \E f \in Files : RemoveDoc(f)
    \/ BuildIndex
    \/ BuildIndexFails
    \/ \E q \in Queries, k \in 0..MaxK : Retrieve(q, k)
    \/ \E q \in Queries, k \in 0..MaxK : RetrieveSearchFails(q, k)
    \/ \E q \in Queries, k \in 0..MaxK : RetrieveOpenFails(q, k)

Spec == Init /\ [][Next]_vars

(***************************************************************************)
(* The last query, as the properties below see it                          *)
(***************************************************************************)

\* retrieve_snippets ran last and returned a list.
Returned == call.op = "retrieve" /\ ~call.raised

\* The corpus the last query read.
CallDocs == _read_kb_docs(kb)

\* The merge map and the ranked list of the last query.
CallCombined == Combined(call.query, CallDocs, call.hits)

CallItems == Items(call.query, CallDocs, call.hits)

\* The provisional top-k, and the list after Step 4 and after Step 5.
CallTop == TopK(CallItems, call.k)

CallStep4 == Step4(call.query, call.k, CallItems, CallTop)

CallStep5 == Step5(call.k, CallItems, CallStep4.top)

\* Term overlap of an entry with the query of the last call.
Overlap(e) == LexicalScore(call.query, e.content)

SameKey(a, b) == a.content = b.content /\ a.source = b.source

\* C1: whenever retrieve_snippets returns, the result has at most k entries
\* and no two entries share the same (content, source) pair.
Cardinality_C1 ==
    Returned =>
        /\ Len(call.out) <= call.k
        /\ \A i, j \in 1..Len(call.out) :
              i # j => ~SameKey(call.out[i], call.out[j])

\* A returned query in which Step 4 and then Step 5 each replaced the last
\* slot of a full top-k.
Witness_C1 ==
    /\ Returned
    /\ call.k >= 1
    /\ Len(call.out) = call.k
    /\ CallStep4.top # CallTop
    /\ CallStep5.top # CallStep4.top

\* Some ranked candidate has a numbered-step line and a positive overlap.
StepCandidate ==
    \E i \in 1..Len(CallItems) :
        _is_numbered_steps(CallItems[i].content) /\ Overlap(CallItems[i]) > 0

\* C2: for k >= 1, if the ranked list holds a chunk with a numbered-step
\* line and a positive term overlap, the returned list holds a chunk with a
\* numbered-step line.
Procedural_C2 ==
    (Returned /\ call.k >= 1 /\ StepCandidate)
        => \E i \in 1..Len(call.out) : _is_numbered_steps(call.out[i].content)

\* Some chunk of the corpus contains the reset-link phrase.
PhraseInCorpus == \E i \in 1..Len(CallDocs) : HasPhrase(CallDocs[i].chunk)

\* C3: for k >= 1, if any chunk of the corpus contains the reset-link phrase,
\* the returned list holds a chunk containing it.
KnownPhrase_C3 ==
    (Returned /\ call.k >= 1 /\ PhraseInCorpus)
        => \E i \in 1..Len(call.out) : HasPhrase(call.out[i].content)

\* The outcome of the query of the last call on zero vector candidates.
LexicalOnly == retrieve_snippets(call.query, call.k, kb, <<>>)

\* C4: a query during which the provider failed, at construction or in the
\* search, ends as the same query on zero vector candidates ends: no
\* exception of the provider reaches the caller.
Absorbed_C4 ==
    (call.op = "retrieve" /\ call.fault # "none")
        => (call.raised = LexicalOnly.raised /\ call.out = LexicalOnly.top)

\* C5: in the returned list, an entry with a strictly greater term overlap
\* than another one comes before it.
Dominance_C5 ==
    Returned =>
        \A i, j \in 1..Len(call.out) :
            Overlap(call.out[i]) > Overlap(call.out[j]) => i < j

\* A returned list of two entries of different overlap whose last slot was
\* written by a splice.
Witness_C5 ==
    /\ Returned
    /\ Len(call.out) >= 2
    /\ Overlap(call.out[1]) > Overlap(call.out[2])
    /\ CallStep5.top # CallTop

\* A sequence read in the order p, a permutation of its positions.
Reordered(seq, p) == [i \in 1..Len(seq) |-> seq[p[i]]]

\* The merge map has the entries of combined whatever the order of hits.
SameMerge(query, docs, hits, combined) ==
    \A p \in Permutations(1..Len(hits)) :
        Range(Combined(query, docs, Reordered(hits, p))) = Range(combined)

\* The ranked list is items whatever the order of the keys of combined.
SameRanking(query, combined, items) ==
    \A p \in Permutations(1..Len(combined)) :
        Sorted(query, Snippets(query, Reordered(combined, p))) = items

\* The outcome recorded is the one of the ranked list items.
SameOutcome(items) ==
    Ranked(call.query, call.k, items) = [raised |-> call.raised, top |-> call.out]

DeterminedBy(combined, items) ==
    /\ SameMerge(call.query, CallDocs, call.hits, combined)
    /\ SameRanking(call.query, combined, items)
    /\ SameOutcome(items)

\* C6: the returned list is a function of the corpus, the query, k and the
\* set of candidates of the provider.  The entries of the merge map are the
\* same whatever the order in which the provider returns its candidates, the
\* ranked list is the same whatever the order in which the keys entered the
\* merge map, and the outcome is the one the ranked list and k determine.
Determinism_C6 ==
    (call.op = "retrieve" /\ call.fault # "open") =>
        DeterminedBy(CallCombined, Sorted(call.query, Snippets(call.query, CallCombined)))

\* A returned list whose first two entries tie on overlap and on score, from
\* a provider answer of several candidates.
Witness_C6 ==
    /\ Returned
    /\ Len(call.hits) >= 2
    /\ Len(call.out) >= 2
    /\ Overlap(call.out[1]) = Overlap(call.out[2])
    /\ call.out[1].score = call.out[2].score

\* The entry of the merge map with the key of e.
MergedOf(e) == CallCombined[KeyPos(CallCombined, e.content, e.source)]

\* C7: the score emitted for every result entry is (1 - L) + V, L the merged
\* lexical score of its key, numbered-step bonus included, and V its merged
\* vector distance.
Composite_C7 ==
    Returned =>
        \A i \in 1..Len(call.out) :
            call.out[i].score
                = Format6((1 - MergedOf(call.out[i]).lex) + MergedOf(call.out[i]).v)

\* C8: of two ranked candidates with the same positive term overlap, one with
\* a numbered-step line and one without, the one with it comes first.
StepBonus_C8 ==
    (call.op = "retrieve" /\ call.fault # "open") =>
        \A i, j \in 1..Len(CallItems) :
            ( /\ Overlap(CallItems[i]) > 0
              /\ Overlap(CallItems[i]) = Overlap(CallItems[j])
              /\ _is_numbered_steps(CallItems[i].content)
              /\ ~_is_numbered_steps(CallItems[j].content) ) => i < j

\* The distinct (content, source) chunks of the corpus.
CorpusKeys == {<<CallDocs[i].chunk, CallDocs[i].source>> : i \in 1..Len(CallDocs)}

\* A query with k >= 1 over a non-empty corpus that shares no stem with any
\* chunk, the provider having yielded no candidate: it returned none, its
\* search failed, or it could not be opened.
FallbackCase ==
    /\ call.op = "retrieve"
    /\ call.k >= 1
    /\ CallDocs # <<>>
    /\ \A i \in 1..Len(CallDocs) : _lexical_score(call.query, CallDocs[i].chunk) = 0
    /\ call.hits = <<>>

\* Every entry of the returned list has lexical score 0 and the sentinel
\* composite score (1 - 0) + 1e9.
AllWorst ==
    \A i \in 1..Len(call.out) :
        /\ Overlap(call.out[i]) = 0
        /\ MergedOf(call.out[i]).lex = 0
        /\ call.out[i].score = Format6((1 - 0) + Sentinel)

\* C9: in the fallback case the query returns min(k, number of corpus
\* chunks) entries, at least one, each of lexical score 0 and of the
\* sentinel composite score (1 - 0) + 1e9.
FallbackCount_C9 ==
    FallbackCase =>
        /\ ~call.raised
        /\ call.out # <<>>
        /\ Len(call.out) = Min(call.k, Len(CallDocs))
        /\ AllWorst

\* What the fallback does give once the provider's constructors have
\* returned: min(k, number of distinct (content, source) chunks of the
\* corpus) entries, at least one, each of lexical score 0 and of the sentinel
\* composite score.
FallbackDistinct ==
    (FallbackCase /\ call.fault # "open") =>
        /\ ~call.raised
        /\ call.out # <<>>
        /\ Len(call.out) = Min(call.k, Cardinality(CorpusKeys))
        /\ AllWorst

\* C10: a query over a knowledge base without documents returns an empty
\* list, whatever the state of the persisted index.
EmptyCorpus_C10 == (Returned /\ DOMAIN kb = {}) => call.out = <<>>

\* C11: apart from the errors of the provider, no step of retrieve_snippets
\* fails: for every query, corpus, provider answer and k >= 0 the ranking,
\* the two splices and the truncation complete and a list is returned.
NoFailure_C11 ==
    (call.op = "retrieve" /\ call.fault # "open") => ~call.raised

\* The number of positions of seq that hold x.
Count(seq, x) == Cardinality({i \in 1..Len(seq) : seq[i] = x})

\* The chunks of the document src as the index stores them.
StoredChunks(src) ==
    [i \in 1..Len(_chunk_markdown(kb[src], DefaultMaxLen)) |->
        [content |-> Strip(_chunk_markdown(kb[src], DefaultMaxLen)[i]), source |-> src]]

\* The index holds nothing but chunks of the documents of the corpus.
NothingSurvives ==
    \A i \in 1..Len(index) :
        /\ index[i].source \in DOMAIN kb
        /\ Count(StoredChunks(index[i].source), index[i]) = Count(index, index[i])

\* Every non-blank chunk of every document is in the index.
NothingMissing ==
    \A src \in DOMAIN kb :
        \A i \in 1..Len(StoredChunks(src)) :
            StoredChunks(src)[i].content # <<>>
                => Count(index, StoredChunks(src)[i])
                       = Count(StoredChunks(src), StoredChunks(src)[i])

\* C12: right after a completed build_index the persisted index holds
\* exactly the chunks, with their source, of the corpus as it is then: no
\* entry of an earlier build survives and no chunk is missing, so that two
\* builds over the same corpus give the same index.
Rebuild_C12 ==
    (call.op = "build_index" /\ ~call.raised) =>
        /\ NothingSurvives
        /\ NothingMissing
        /\ index = IndexOf(_read_kb_docs(kb))

\* A completed build over a corpus of two documents, three chunks.
Witness_C12 ==
    /\ call.op = "build_index"
    /\ ~call.raised
    /\ Cardinality(DOMAIN kb) = 2
    /\ Len(index) = 3

\* Step (1) applied to its own result s4 gives s4 again.
Again(query, k, items, s4) ==
    ~s4.raised => Step4(query, k, items, s4.top) = s4

\* Step (1) leaves a top that holds a numbered-step chunk as it is, and
\* changes nothing when applied a second time.
Idempotent(query, k, items, top) ==
    /\ (\E i \in 1..Len(top) : NumberedSteps(top[i].content))
          => Step4(query, k, items, top) = Ok(top)
    /\ Again(query, k, items, Step4(query, k, items, top))

IdempotentOn(query, k, items) == Idempotent(query, k, items, TopK(items, k))

\* C16: if the provisional top-k holds a chunk with a numbered-step line,
\* Step 4 leaves it unchanged, and Step 4 applied to its own output changes
\* nothing.
StepFour_C16 ==
    (call.op = "retrieve" /\ call.fault # "open")
        => IdempotentOn(call.query, call.k, CallItems)

\* A query whose provisional top-2 had no numbered-step chunk and got one
\* from Step 4.
Witness_C16 ==
    /\ Returned
    /\ call.k = 2
    /\ CallStep4.top # CallTop
    /\ \E i \in 1..Len(CallStep4.top) : _is_numbered_steps(CallStep4.top[i].content)

\* The key of a merged candidate as the ranking is specified: its merged
\* lexical score, numbered-step bonus included, negated; its composite score
\* (1 - lexical) + vector; its source; its content.
MergedKey(e) == <<0 - e.lex, (1 - e.lex) + e.v, e.source, e.content>>

\* Every key is strictly less than every later one.
StrictlySorted(keys) ==
    \A i, j \in 1..Len(keys) : i < j => KeyLess(keys[i], keys[j])

\* The keys of the ranked list of the last query: those sorted() compares,
\* and those of the merge map entries.
CodeKeys == [i \in 1..Len(CallItems) |-> SortKey(call.query, CallItems[i])]

MergedKeys == [i \in 1..Len(CallItems) |-> MergedKey(MergedOf(CallItems[i]))]

\* items[:k] is the same list whatever the order of the keys of the merge map.
SameTop ==
    \A p \in Permutations(1..Len(CallCombined)) :
        TopK(Sorted(call.query, Snippets(call.query, Reordered(CallCombined, p))),
             call.k) = CallTop

\* The ranked list is strictly sorted on the keys sorted() compares (raw
\* overlap, emitted score, source, content) and its head is determined by
\* the set of merged candidates.
RankedOnCodeKeys ==
    (call.op = "retrieve" /\ call.fault # "open") =>
        (StrictlySorted(CodeKeys) /\ SameTop)

\* C19: the ranked list is strictly sorted by lexical score descending, then
\* composite score ascending, then source ascending, then content ascending,
\* the scores being those of the merged candidates; no two distinct
\* candidates compare equal, and the provisional top-k is the same whatever
\* the order in which the candidates entered the merge map.
Order_C19 ==
    (call.op = "retrieve" /\ call.fault # "open") =>
        (StrictlySorted(MergedKeys) /\ SameTop)

\* The ranked list of the last query as it would be emitted whole.
EmittedItems == Emit(CallItems, Len(CallItems))

\* C21: for k >= 1 the two guarantee splices change at most the last slot of
\* the provisional top-k: the first k-1 entries returned are the first k-1
\* entries of the ranked list, in its order, and neither splice changes the
\* length of the list, which is min(k, number of merged candidates) after
\* Step 4, after Step 5 and in the result.
Frame_C21 ==
    (Returned /\ call.k >= 1) =>
        /\ \A i \in 1..Len(call.out) : i < call.k => call.out[i] = EmittedItems[i]
        /\ Len(CallStep4.top) = Min(call.k, Len(CallCombined))
        /\ Len(CallStep5.top) = Min(call.k, Len(CallCombined))
        /\ Len(call.out) = Min(call.k, Len(CallCombined))

\* A returned list of k = 2 entries out of more than two merged candidates,
\* whose last slot a splice wrote and whose first slot is the first entry of
\* the ranked list.
Witness_C21 ==
    /\ Returned
    /\ call.k = 2
    /\ Len(CallCombined) > 2
    /\ Len(call.out) = 2
    /\ call.out[1] = EmittedItems[1]
    /\ call.out[2] # EmittedItems[2]

(***************************************************************************)
(* The document chunker on its own                                         *)
(***************************************************************************)

\* Longest text given to the chunker and largest max_len.
MaxTextLen == 5

MaxChunkLen == 3

\* The sequences over S of length at most n.
SeqsUpTo(S, n) == UNION {[1..m -> S] : m \in 0..n}

\* Texts of letters, blanks and line ends.
ChunkChars == {"a", " ", "\n"}

\* A text and a max_len >= 1 are chosen.
ChunkInit ==
    /\ kb = <<>>
    /\ index = <<>>
    /\ call \in {[op |-> "input", text |-> t, max_len |-> m, out |-> <<>>] :
                    t \in SeqsUpTo(ChunkChars, MaxTextLen), m \in 1..MaxChunkLen}

\* _chunk_markdown(text, max_len) is called.
ChunkMarkdown ==
    /\ call.op = "input"
    /\ call' = [call EXCEPT !.op = "_chunk_markdown",
                            !.out = _chunk_markdown(call.text, call.max_len)]
    /\ UNCHANGED <<kb, index>>

SpecChunk == ChunkInit /\ [][ChunkMarkdown]_vars

\* The characters of s that are not whitespace, in order.
RECURSIVE NonSpace(_)
NonSpace(s) ==
    IF s = <<>> THEN <<>>
    ELSE (IF IsSpace(Head(s)) THEN <<>> ELSE <<Head(s)>>) \o NonSpace(Tail(s))

\* The chunks one after the other.
RECURSIVE Flatten(_)
Flatten(chunks) ==
    IF chunks = <<>> THEN <<>> ELSE Head(chunks) \o Flatten(Tail(chunks))

\* C13: for every text and max_len >= 1 the chunks of _chunk_markdown are in
\* document order (read one after the other they give the text, whitespace
\* aside, so that a whitespace-only paragraph gives no chunk), every chunk is
\* neither empty nor whitespace-only, and every chunk has at most max_len
\* characters.
Chunker_C13 ==
    call.op = "_chunk_markdown" =>
        /\ NonSpace(Flatten(call.out)) = NonSpace(call.text)
        /\ \A i \in 1..Len(call.out) :
              /\ Strip(call.out[i]) # <<>>
              /\ Len(call.out[i]) <= call.max_len

(***************************************************************************)
(* The stemmer on its own                                                  *)
(***************************************************************************)

\* Longest stem put before an ending to make a token.
MaxBodyLen == 3

StemChars == {"n", "o"}

\* The endings of the tokens: none, and each suffix of the list.
Endings == {<<>>} \cup Range(_FR_SUFFIXES)

\* Tokens: a short stem followed by an ending.
Tokens == {b \o e : b \in SeqsUpTo(StemChars, MaxBodyLen), e \in Endings}

StemInit ==
    /\ kb = <<>>
    /\ index = <<>>
    /\ call \in {[op |-> "input", tok |-> t, out |-> <<>>] : t \in Tokens}

\* _stem_fr(tok) is called.
StemFr ==
    /\ call.op = "input"
    /\ call' = [call EXCEPT !.op = "_stem_fr", !.out = _stem_fr(call.tok)]
    /\ UNCHANGED <<kb, index>>

SpecStem == StemInit /\ [][StemFr]_vars

\* The suffixes of the list the accent-stripped token t ends with.
Matching(t) == {suf \in Range(_FR_SUFFIXES) : EndsWith(t, suf)}

\* The stem that remains once suf is removed is longer than len(suf) + 2.
LongStem(t, suf) == Len(t) - Len(suf) > Len(suf) + 2

\* C14: _stem_fr strips a suffix from the accent-stripped token only if the
\* stem that remains is longer than len(suffix) + 2 characters, and returns
\* the accent-stripped token unchanged when no suffix satisfies this.
LengthGuard_C14 ==
    call.op = "_stem_fr" =>
        /\ call.out # _strip_accents(call.tok) =>
              \E suf \in Matching(_strip_accents(call.tok)) :
                  /\ call.out = Stripped(_strip_accents(call.tok), suf)
                  /\ LongStem(_strip_accents(call.tok), suf)
        /\ (\A suf \in Matching(_strip_accents(call.tok)) :
                ~LongStem(_strip_accents(call.tok), suf))
              => call.out = _strip_accents(call.tok)

\* The suffixes of the list that t ends with and that pass the guard of the
\* code.
Passing(t) == {suf \in Matching(t) : Strippable(t, suf)}

\* suf is the longest of the suffixes of sufs.
IsLongest(suf, sufs) == suf \in sufs /\ \A other \in sufs : Len(other) <= Len(suf)

\* C20: the suffix _stem_fr removes is the longest suffix of the list that
\* the accent-stripped token ends with and that passes the length guard; a
\* token none passes for is returned accent-stripped.
LongestSuffix_C20 ==
    call.op = "_stem_fr" =>
        /\ \A suf \in Passing(_strip_accents(call.tok)) :
              IsLongest(suf, Passing(_strip_accents(call.tok)))
                  => call.out = Stripped(_strip_accents(call.tok), suf)
        /\ Passing(_strip_accents(call.tok)) = {}
              => call.out = _strip_accents(call.tok)

(***************************************************************************)
(* The lexical scorer on its own                                           *)
(***************************************************************************)

\* Most words in a text given to the scorer.
MaxWords == 2

WordNo == <<"n", "o">>

WordNote == <<"n", "o", "t", "e">>

WordNotes == <<"N", "o", "t", "é", "s">>

WordMot == <<"m", "o", "t">>

Words == {WordNo, WordNote, WordNotes, WordMot}

\* The words one after the other, a blank between two.
RECURSIVE Join(_)
Join(words) ==
    IF words = <<>> THEN <<>>
    ELSE IF Len(words) = 1 THEN Head(words)
    ELSE Head(words) \o <<" ">> \o Join(Tail(words))

ScoreTexts == {Join(ws) : ws \in SeqsUpTo(Words, MaxWords)}

ScoreInit ==
    /\ kb = <<>>
    /\ index = <<>>
    /\ call \in {[op |-> "input", a |-> a, b |-> b, out |-> 0, swapped |-> 0] :
                    a \in ScoreTexts, b \in ScoreTexts}

\* _lexical_score(a, b) and _lexical_score(b, a) are called.
LexicalScoreCall ==
    /\ call.op = "input"
    /\ call' = [call EXCEPT !.op = "_lexical_score",
                            !.out = _lexical_score(call.a, call.b),
                            !.swapped = _lexical_score(call.b, call.a)]
    /\ UNCHANGED <<kb, index>>

SpecScore == ScoreInit /\ [][LexicalScoreCall]_vars

\* The tokens of text of length >= 3.
Qualifying(text) == {tok \in Range(_tokenize(text)) : Len(tok) >= 3}

\* Their stems, as a set.
StemsOf(text) == {_stem_fr(tok) : tok \in Qualifying(text)}

\* C15: _lexical_score(a, b) is the size of the intersection of the stem sets
\* of the tokens of length >= 3 of a and of b, the length being tested before
\* stemming and the duplicates collapsed; it is 0 when either text has no
\* such token, and _lexical_score(a, b) = _lexical_score(b, a).
Scorer_C15 ==
    call.op = "_lexical_score" =>
        /\ call.out = Cardinality(StemsOf(call.a) \cap StemsOf(call.b))
        /\ (Qualifying(call.a) = {} \/ Qualifying(call.b) = {}) => call.out = 0
        /\ call.out = call.swapped

\* A positive score of two different texts, one with a token too short to
\* count and two tokens of the same stem.
Witness_C15 ==
    /\ call.op = "_lexical_score"
    /\ call.out >= 1
    /\ call.a # call.b
    /\ Cardinality(Qualifying(call.a)) > Cardinality(StemsOf(call.a))
    /\ \E tok \in Range(_tokenize(call.b)) : Len(tok) < 3

(***************************************************************************)
(* Ticket routing (app/routing.py)                                         *)
(***************************************************************************)

_INCIDENT_HINTS ==
    << [re |-> "\\bincident\\b", kind |-> "word",
          words |-> {<<"i", "n", "c", "i", "d", "e", "n", "t">>}],
       [re |-> "\\bpanne\\b", kind |-> "word",
          words |-> {<<"p", "a", "n", "n", "e">>}],
       [re |-> "\\bbug\\b", kind |-> "word",
          words |-> {<<"b", "u", "g">>}],
       [re |-> "\\berreur\\b", kind |-> "word",
          words |-> {<<"e", "r", "r", "e", "u", "r">>}],
       [re |-> "\\bimpossible\\b", kind |-> "word",
          words |-> {<<"i", "m", "p", "o", "s", "s", "i", "b", "l", "e">>}],
       [re |-> "ne\\s+(marche|fonctionne)\\s+pas", kind |-> "nepas",
          words |-> {<<"m", "a", "r", "c", "h", "e">>, <<"f", "o", "n", "c", "t",
          "i", "o", "n", "n", "e">>}],
       [re |-> "\\bbloqu(?:e|é|ée|ant|ante)?\\b", kind |-> "word",
          words |-> {<<"b", "l", "o", "q", "u">>, <<"b", "l", "o", "q", "u",
          "e">>, <<"b", "l", "o", "q", "u", "é">>, <<"b", "l", "o", "q", "u", "é",
          "e">>, <<"b", "l", "o", "q", "u", "a", "n", "t">>, <<"b", "l", "o", "q",
          "u", "a", "n", "t", "e">>}],
       [re |-> "\\b(?:echec|échec)\\b", kind |-> "word",
          words |-> {<<"e", "c", "h", "e", "c">>, <<"é", "c", "h", "e", "c">>}] >>

_DEMANDE_HINTS ==
    << [re |-> "\\bcr[ée]er?\\b", kind |-> "word",
          words |-> {<<"c", "r", "e", "e">>, <<"c", "r", "e", "e", "r">>, <<"c",
          "r", "é", "e">>, <<"c", "r", "é", "e", "r">>}],
       [re |-> "\\bcr[ée]ation\\b", kind |-> "word",
          words |-> {<<"c", "r", "e", "a", "t", "i", "o", "n">>, <<"c", "r", "é",
          "a", "t", "i", "o", "n">>}],
       [re |-> "\\bajout(?:er)?\\b", kind |-> "word",
          words |-> {<<"a", "j", "o", "u", "t">>, <<"a", "j", "o", "u", "t", "e",
          "r">>}],
       [re |-> "\\bacc[eè]s\\b", kind |-> "word",
          words |-> {<<"a", "c", "c", "e", "s">>, <<"a", "c", "c", "è", "s">>}],
       [re |-> "\\bdemande\\b", kind |-> "word",
          words |-> {<<"d", "e", "m", "a", "n", "d", "e">>}],
       [re |-> "\\bactiver?\\b", kind |-> "word",
          words |-> {<<"a", "c", "t", "i", "v", "e">>, <<"a", "c", "t", "i", "v",
          "e", "r">>}],
       [re |-> "\\bsuppression\\b", kind |-> "word",
          words |-> {<<"s", "u", "p", "p", "r", "e", "s", "s", "i", "o", "n">>}] >>

_QUESTION_HINTS ==
    << [re |-> "\\?", kind |-> "plain",
          words |-> {<<"?">>}],
       [re |-> "\\bpouvez[- ]?vous\\b", kind |-> "word",
          words |-> {<<"p", "o", "u", "v", "e", "z", "v", "o", "u", "s">>, <<"p",
          "o", "u", "v", "e", "z", "-", "v", "o", "u", "s">>, <<"p", "o", "u",
          "v", "e", "z", " ", "v", "o", "u", "s">>}],
       [re |-> "\\bcomment\\b", kind |-> "word",
          words |-> {<<"c", "o", "m", "m", "e", "n", "t">>}],
       [re |-> "\\bpourquoi\\b", kind |-> "word",
          words |-> {<<"p", "o", "u", "r", "q", "u", "o", "i">>}],
       [re |-> "\\bquelle?s?\\b", kind |-> "word",
          words |-> {<<"q", "u", "e", "l", "l">>, <<"q", "u", "e", "l", "l",
          "s">>, <<"q", "u", "e", "l", "l", "e">>, <<"q", "u", "e", "l", "l",
          "e", "s">>}] >>

_URGENCY_STRONG ==
    << [re |-> "\\burgent(?:e|es)?\\b", kind |-> "word",
          words |-> {<<"u", "r", "g", "e", "n", "t">>, <<"u", "r", "g", "e", "n",
          "t", "e">>, <<"u", "r", "g", "e", "n", "t", "e", "s">>}],
       [re |-> "\\burgence\\b", kind |-> "word",
          words |-> {<<"u", "r", "g", "e", "n", "c", "e">>}],
       [re |-> "\\basap\\b", kind |-> "word",
          words |-> {<<"a", "s", "a", "p">>}],
       [re |-> "\\bimm[ée]diat(?:e|ement)?\\b", kind |-> "word",
          words |-> {<<"i", "m", "m", "e", "d", "i", "a", "t">>, <<"i", "m", "m",
          "e", "d", "i", "a", "t", "e">>, <<"i", "m", "m", "e", "d", "i", "a",
          "t", "e", "m", "e", "n", "t">>, <<"i", "m", "m", "é", "d", "i", "a",
          "t">>, <<"i", "m", "m", "é", "d", "i", "a", "t", "e">>, <<"i", "m", "m",
          "é", "d", "i", "a", "t", "e", "m", "e", "n", "t">>}] >>

_URGENCY_BLOCKING ==
    << [re |-> "\\bcritique\\b", kind |-> "word",
          words |-> {<<"c", "r", "i", "t", "i", "q", "u", "e">>}],
       [re |-> "\\bbloqu(?:e|é|ée|ant|ante)?\\b", kind |-> "word",
          words |-> {<<"b", "l", "o", "q", "u">>, <<"b", "l", "o", "q", "u",
          "e">>, <<"b", "l", "o", "q", "u", "é">>, <<"b", "l", "o", "q", "u", "é",
          "e">>, <<"b", "l", "o", "q", "u", "a", "n", "t">>, <<"b", "l", "o", "q",
          "u", "a", "n", "t", "e">>}],
       [re |-> "\\bproduction\\b", kind |-> "word",
          words |-> {<<"p", "r", "o", "d", "u", "c", "t", "i", "o", "n">>}],
       [re |-> "\\b(?:en )?panne\\b", kind |-> "word",
          words |-> {<<"p", "a", "n", "n", "e">>, <<"e", "n", " ", "p", "a", "n",
          "n", "e">>}],
       [re |-> "\\bdown\\b", kind |-> "word",
          words |-> {<<"d", "o", "w", "n">>}] >>

\* \w of the regular expressions: letters, digits and the underscore.
IsWordChar(c) == c = "_" \/ (c \in DOMAIN CodePoint /\ IsTokenChar(c))

\* w stands in text at position i.
OccursAt(text, w, i) ==
    /\ i >= 1
    /\ i + Len(w) - 1 <= Len(text)
    /\ SubSeq(text, i, i + Len(w) - 1) = w

\* \bw\b matches at position i, w beginning and ending with a word character.
BoundedAt(text, w, i) ==
    /\ OccursAt(text, w, i)
    /\ (i = 1 \/ ~IsWordChar(text[i - 1]))
    /\ (i + Len(w) > Len(text) \/ ~IsWordChar(text[i + Len(w)]))

HasWord(text, w) == \E i \in 1..Len(text) : BoundedAt(text, w, i)

\* (marche|fonctionne)\s+pas from position j on.
VerbPasAt(text, v, j) ==
    /\ OccursAt(text, v, j)
    /\ j + Len(v) <= Len(text)
    /\ IsSpace(text[j + Len(v)])
    /\ OccursAt(text, <<"p", "a", "s">>, SkipSpaces(text, j + Len(v)))

\* ne\s+(marche|fonctionne)\s+pas at position i.
NePasAt(text, verbs, i) ==
    /\ OccursAt(text, <<"n", "e">>, i)
    /\ i + 2 <= Len(text)
    /\ IsSpace(text[i + 2])
    /\ \E v \in verbs : VerbPasAt(text, v, SkipSpaces(text, i + 2))

\* re.search(p, text, flags=re.IGNORECASE) on a lower-case text.
Search(p, text) ==
    CASE p.kind = "word" -> \E w \in p.words : HasWord(text, w)
      [] p.kind = "plain" ->
            \E w \in p.words : \E i \in 1..Len(text) : OccursAt(text, w, i)
      [] p.kind = "nepas" -> \E i \in 1..Len(text) : NePasAt(text, p.words, i)

\* re.search(_HTTP_ERROR, text): \b[45]\d\d\b
HttpErrorAt(text, i) ==
    /\ i + 2 <= Len(text)
    /\ text[i] \in {"4", "5"}
    /\ IsDigit(text[i + 1])
    /\ IsDigit(text[i + 2])
    /\ (i = 1 \/ ~IsWordChar(text[i - 1]))
    /\ (i + 3 > Len(text) \/ ~IsWordChar(text[i + 3]))

_HTTP_ERROR(text) == \E i \in 1..Len(text) : HttpErrorAt(text, i)

\* _search_any: the features appended to sink, one per pattern found; the
\* count returned is their number.
RECURSIVE _search_any(_, _, _)
_search_any(patterns, text, feature_prefix) ==
    IF patterns = <<>> THEN <<>>
    ELSE (IF Search(Head(patterns), text)
          THEN <<<<feature_prefix, Head(patterns).re>>>>
          ELSE <<>>)
         \o _search_any(Tail(patterns), text, feature_prefix)

\* The features _score_urgency appends.
UrgencyFeatures(text) ==
    _search_any(_URGENCY_STRONG, text, "urg_strong")
        \o _search_any(_URGENCY_BLOCKING, text, "urg_block")
        \o (IF _HTTP_ERROR(text) THEN <<<<"http_error", "">>>> ELSE <<>>)
        \o (IF HasWord(text, <<"e", "r", "r", "e", "u", "r">>)
            THEN <<<<"kw", "erreur">>>> ELSE <<>>)

\* The score _score_urgency returns.
_score_urgency(text) ==
    2 * Len(_search_any(_URGENCY_STRONG, text, "urg_strong"))
        + 2 * Len(_search_any(_URGENCY_BLOCKING, text, "urg_block"))
        + (IF _HTTP_ERROR(text) THEN 1 ELSE 0)
        + (IF HasWord(text, <<"e", "r", "r", "e", "u", "r">>) THEN 1 ELSE 0)

\* x or "" for an optional string: <<>> is None, <<s>> is the string s.
OrEmpty(opt) == IF opt = <<>> THEN <<>> ELSE opt[1]

\* " ".join(filter(None, [a, b]))
JoinNonEmpty(a, b) ==
    IF a = <<>> THEN b ELSE IF b = <<>> THEN a ELSE a \o <<" ">> \o b

\* text and subj of classify_email.
MailText(email) == Lower(JoinNonEmpty(OrEmpty(email.subject), email.body))

MailSubj(email) == Lower(OrEmpty(email.subject))

TagIncident == <<"[", "i", "n", "c", "i", "d", "e", "n", "t", "]">>

TagDemande == <<"[", "d", "e", "m", "a", "n", "d", "e", "]">>

\* The type the hint counts give.
ByHints(inc, dem, que) ==
    IF inc > dem /\ inc >= que THEN "incident"
    ELSE IF dem > inc /\ dem >= que THEN "demande"
    ELSE "question"

\* t of classify_email.
TicketType(subj, text) ==
    IF Contains(TagIncident, subj) THEN "incident"
    ELSE IF Contains(TagDemande, subj) THEN "demande"
    ELSE ByHints(Len(_search_any(_INCIDENT_HINTS, text, "hint_incident")),
                 Len(_search_any(_DEMANDE_HINTS, text, "hint_demande")),
                 Len(_search_any(_QUESTION_HINTS, text, "hint_question")))

\* The features appended while the type is decided.
TypeFeatures(subj, text) ==
    IF Contains(TagIncident, subj)
    THEN <<<<"tag", "[INCIDENT]">>, <<"tag", "[incident]">>>>
    ELSE IF Contains(TagDemande, subj)
    THEN <<<<"tag", "[DEMANDE]">>, <<"tag", "[demande]">>>>
    ELSE _search_any(_INCIDENT_HINTS, text, "hint_incident")
             \o _search_any(_DEMANDE_HINTS, text, "hint_demande")
             \o _search_any(_QUESTION_HINTS, text, "hint_question")

\* score once the incident point is added.
UrgencyScore(t, text) == _score_urgency(text) + (IF t = "incident" THEN 1 ELSE 0)

\* The urgency with "basse" for every type of score 0.
UrgencyAnyType(t, score) ==
    IF score >= 4 THEN "critique"
    ELSE IF score >= 2 THEN "haute"
    ELSE IF score = 0 THEN "basse"
    ELSE "normale"

\* u of classify_email.
Urgency(t, score) ==
    IF score >= 4 THEN "critique"
    ELSE IF score >= 2 THEN "haute"
    ELSE IF t = "question" /\ score = 0 THEN "basse"
    ELSE "normale"

HasFeature(features, prefix) ==
    \E i \in 1..Len(features) : features[i][1] = prefix

\* f in features
HasExact(features, f) == \E i \in 1..Len(features) : features[i] = f

\* The audit reasons, in the order of the code; the typographic apostrophe
\* of two of them is written as the plain one.
Reasons(features) ==
    (IF HasExact(features, <<"tag", "[INCIDENT]">>)
           \/ HasExact(features, <<"tag", "[incident]">>)
     THEN <<"Sujet contient [INCIDENT].">> ELSE <<>>)
    \o (IF HasExact(features, <<"tag", "[DEMANDE]">>)
              \/ HasExact(features, <<"tag", "[demande]">>)
        THEN <<"Sujet contient [DEMANDE].">> ELSE <<>>)
    \o (IF HasFeature(features, "urg_strong")
        THEN <<"Termes d'urgence forts détectés.">> ELSE <<>>)
    \o (IF HasFeature(features, "urg_block")
        THEN <<"Termes bloquants/production détectés.">> ELSE <<>>)
    \o (IF HasFeature(features, "http_error")
        THEN <<"Code HTTP d'erreur détecté.">> ELSE <<>>)
    \o (IF HasExact(features, <<"kw", "erreur">>)
        THEN <<"Mot-clé 'erreur' détecté.">> ELSE <<>>)

\* The RoutingDecision for the type t.
Decision(t, text, features) ==
    [type |-> t, urgency |-> Urgency(t, UrgencyScore(t, text)),
     matched_features |-> features, reasons |-> Reasons(features)]

Classified(subj, text) ==
    Decision(TicketType(subj, text), text,
             TypeFeatures(subj, text) \o UrgencyFeatures(text))

classify_email(email) == Classified(MailSubj(email), MailText(email))

\* Most words in the body of an email given to the classifier.
MaxMailWords == 2

MailUrgent ==
    <<"U", "R", "G", "E", "N", "T">>

MailProduction ==
    <<"p", "r", "o", "d", "u", "c", "t", "i", "o", "n">>

MailErreur ==
    <<"e", "r", "r", "e", "u", "r">>

MailHttp ==
    <<"5", "0", "2">>

MailPanne ==
    <<"p", "a", "n", "n", "e">>

MailAcces ==
    <<"a", "c", "c", "è", "s">>

MailDemande ==
    <<"d", "e", "m", "a", "n", "d", "e">>

MailComment ==
    <<"c", "o", "m", "m", "e", "n", "t">>

MailMark ==
    <<"?">>

MailBonjour ==
    <<"B", "o", "n", "j", "o", "u", "r">>

\* "quel", which \bquelle?s?\b does not match, and "quells", which it does.
MailQuel == <<"q", "u", "e", "l">>

MailQuells == <<"q", "u", "e", "l", "l", "s">>

MailWords ==
    {MailQuel,
     MailQuells,
     MailUrgent,
     MailProduction,
     MailErreur,
     MailHttp,
     MailPanne,
     MailAcces,
     MailDemande,
     MailComment,
     MailMark,
     MailBonjour}

SubjIncident ==
    <<"[", "I", "N", "C", "I", "D", "E", "N", "T", "]", " ", "a", "c", "c", "è", "s">>

SubjDemande ==
    <<"[", "D", "e", "m", "a", "n", "d", "e", "]", " ", "c", "o", "m", "p", "t", "e">>

SubjBoth ==
    <<"[", "D", "E", "M", "A", "N", "D", "E", "]", " ", "[", "I", "N", "C", "I", "D", "E", "N", "T", "]">>

SubjPlain ==
    <<"C", "o", "m", "p", "t", "e">>

\* The subjects: None, and each of the subject lines.
Subjects == {<<>>, <<SubjIncident>>, <<SubjDemande>>, <<SubjBoth>>, <<SubjPlain>>}

Bodies == {Join(ws) : ws \in SeqsUpTo(MailWords, MaxMailWords)}

\* The emails: the fields the classifier and the reply read.
Emails == {[subject |-> s, body |-> b] : s \in Subjects, b \in Bodies}

RouteInit ==
    /\ kb = <<>>
    /\ index = <<>>
    /\ call \in {[op |-> "input", email |-> e, out |-> <<>>] : e \in Emails}

\* classify_email(email) is called.
ClassifyEmail ==
    /\ call.op = "input"
    /\ call' = [call EXCEPT !.op = "classify_email", !.out = classify_email(call.email)]
    /\ UNCHANGED <<kb, index>>

SpecRoute == RouteInit /\ [][ClassifyEmail]_vars

\* The number of features of d with the given prefix.
FeatureCount(d, prefix) ==
    Cardinality({i \in 1..Len(d.matched_features) : d.matched_features[i][1] = prefix})

\* The urgency score the decision d was taken on, from its features.
ScoreFrom(d) ==
    2 * FeatureCount(d, "urg_strong") + 2 * FeatureCount(d, "urg_block")
        + FeatureCount(d, "http_error") + FeatureCount(d, "kw")
        + (IF d.type = "incident" THEN 1 ELSE 0)

\* The subject carries the tag, whatever the case of its letters.
Tagged(email, tag) == Contains(tag, Lower(OrEmpty(email.subject)))

\* The type is the one the tags of the subject give, [INCIDENT] first.
TagRule(email, d) ==
    /\ Tagged(email, TagIncident) => d.type = "incident"
    /\ (Tagged(email, TagDemande) /\ ~Tagged(email, TagIncident)) => d.type = "demande"

\* The urgency is the one the score gives.
UrgencyRule(d, score) ==
    /\ d.urgency = "basse" <=> (d.type = "question" /\ score = 0)
    /\ d.type = "incident" => d.urgency # "basse"
    /\ d.urgency = "critique" <=> score >= 4
    /\ d.urgency = "haute" <=> (score >= 2 /\ score < 4)

\* C18: classify_email returns one type and one urgency; a subject tag
\* [INCIDENT] or [DEMANDE] fixes the type whatever the hints found; the
\* urgency is basse iff the type is question and the score is 0 (an incident
\* is never basse), critique iff the score is >= 4, haute iff it is 2 or 3;
\* an email without tag, hint or urgency feature is a question of urgency
\* basse.
Routing_C18 ==
    call.op = "classify_email" =>
        /\ call.out.type \in {"incident", "demande", "question"}
        /\ call.out.urgency \in {"critique", "haute", "normale", "basse"}
        /\ TagRule(call.email, call.out)
        /\ UrgencyRule(call.out, ScoreFrom(call.out))
        /\ call.out.matched_features = <<>>
              => (call.out.type = "question" /\ call.out.urgency = "basse")

\* An email tagged [INCIDENT] whose hints alone would make it a demande.
Witness_C18 ==
    /\ call.op = "classify_email"
    /\ Tagged(call.email, TagIncident)
    /\ call.out.type = "incident"
    /\ ByHints(Len(_search_any(_INCIDENT_HINTS, MailText(call.email), "hint_incident")),
               Len(_search_any(_DEMANDE_HINTS, MailText(call.email), "hint_demande")),
               Len(_search_any(_QUESTION_HINTS, MailText(call.email), "hint_question")))
           = "demande"

(***************************************************************************)
(* Reply text (app/reply.py)                                               *)
(***************************************************************************)

\* The literal texts of reply.py; the typographic apostrophe is written as the
\* plain one.
TxtBonjour ==
    <<"B", "o", "n", "j", "o", "u", "r", ",">>

TxtBonjourName ==
    <<"B", "o", "n", "j", "o", "u", "r", " ">>

OpenPriority ==
    <<"N", "o", "u", "s", " ", "a", "v", "o", "n", "s", " ", "b", "i", "e",
      "n", " ", "p", "r", "i", "s", " ", "e", "n", " ", "c", "o", "m", "p",
      "t", "e", " ", "v", "o", "t", "r", "e", " ", "i", "n", "c", "i", "d",
      "e", "n", "t", " ", "e", "t", " ", "l", "e", " ", "t", "r", "a", "i",
      "t", "o", "n", "s", " ", "e", "n", " ", "p", "r", "i", "o", "r", "i",
      "t", "é", ".">>

OpenIncident ==
    <<"N", "o", "u", "s", " ", "a", "v", "o", "n", "s", " ", "b", "i", "e",
      "n", " ", "p", "r", "i", "s", " ", "e", "n", " ", "c", "o", "m", "p",
      "t", "e", " ", "v", "o", "t", "r", "e", " ", "i", "n", "c", "i", "d",
      "e", "n", "t", ".", " ", "V", "o", "i", "c", "i", " ", "n", "o", "t",
      "r", "e", " ", "p", "l", "a", "n", " ", "d", "'", "a", "c", "t", "i",
      "o", "n", ".">>

OpenDemande ==
    <<"M", "e", "r", "c", "i", " ", "p", "o", "u", "r", " ", "v", "o", "t",
      "r", "e", " ", "d", "e", "m", "a", "n", "d", "e", ".", " ", "V", "o",
      "i", "c", "i", " ", "l", "a", " ", "p", "r", "o", "c", "é", "d", "u",
      "r", "e", " ", "e", "n", "v", "i", "s", "a", "g", "é", "e", " ", ":">>

OpenQuestion ==
    <<"M", "e", "r", "c", "i", " ", "p", "o", "u", "r", " ", "v", "o", "t",
      "r", "e", " ", "m", "e", "s", "s", "a", "g", "e", ".", " ", "V", "o",
      "i", "c", "i", " ", "d", "e", "s", " ", "é", "l", "é", "m", "e", "n",
      "t", "s", " ", "d", "e", " ", "r", "é", "p", "o", "n", "s", "e", " ",
      ":">>

PlanIncident1 ==
    <<"I", "d", "e", "n", "t", "i", "f", "i", "e", "r", " ", "l", "e", " ",
      "p", "é", "r", "i", "m", "è", "t", "r", "e", " ", "d", "e", " ", "l",
      "'", "i", "n", "c", "i", "d", "e", "n", "t", " ", "(", "u", "t", "i",
      "l", "i", "s", "a", "t", "e", "u", "r", " ", "i", "m", "p", "a", "c",
      "t", "é", ",", " ", "U", "R", "L", ",", " ", "h", "o", "r", "o", "d",
      "a", "t", "a", "g", "e", ")", ".">>

PlanIncident2 ==
    <<"R", "e", "p", "r", "o", "d", "u", "i", "r", "e", " ", "l", "'", "e",
      "r", "r", "e", "u", "r", " ", "e", "t", " ", "c", "o", "l", "l", "e",
      "c", "t", "e", "r", " ", "l", "e", "s", " ", "l", "o", "g", "s", " ",
      "p", "e", "r", "t", "i", "n", "e", "n", "t", "s", ".">>

PlanIncident3 ==
    <<"A", "p", "p", "l", "i", "q", "u", "e", "r", " ", "l", "a", " ", "p",
      "r", "o", "c", "é", "d", "u", "r", "e", " ", "d", "e", " ", "r", "e",
      "m", "é", "d", "i", "a", "t", "i", "o", "n", " ", "d", "o", "c", "u",
      "m", "e", "n", "t", "é", "e", " ", "s", "i", " ", "d", "i", "s", "p",
      "o", "n", "i", "b", "l", "e", ".">>

PlanIncident4 ==
    <<"E", "s", "c", "a", "l", "a", "d", "e", "r", " ", "a", "u", " ", "n",
      "i", "v", "e", "a", "u", " ", "a", "p", "p", "r", "o", "p", "r", "i",
      "é", " ", "s", "i", " ", "l", "e", " ", "b", "l", "o", "c", "a", "g",
      "e", " ", "p", "e", "r", "s", "i", "s", "t", "e", ".">>

PlanIncident == <<PlanIncident1, PlanIncident2, PlanIncident3, PlanIncident4>>

PlanDemande1 ==
    <<"V", "é", "r", "i", "f", "i", "e", "r", " ", "l", "a", " ", "c", "o",
      "m", "p", "l", "é", "t", "u", "d", "e", " ", "d", "e", " ", "l", "a",
      " ", "d", "e", "m", "a", "n", "d", "e", " ", "e", "t", " ", "s", "o",
      "n", " ", "é", "l", "i", "g", "i", "b", "i", "l", "i", "t", "é", ".">>

PlanDemande2 ==
    <<"A", "p", "p", "l", "i", "q", "u", "e", "r", " ", "l", "a", " ", "p",
      "r", "o", "c", "é", "d", "u", "r", "e", " ", "d", "é", "c", "r", "i",
      "t", "e", " ", "d", "a", "n", "s", " ", "l", "a", " ", "b", "a", "s",
      "e", " ", "d", "e", " ", "c", "o", "n", "n", "a", "i", "s", "s", "a",
      "n", "c", "e", "s", ".">>

PlanDemande3 ==
    <<"I", "n", "f", "o", "r", "m", "e", "r", " ", "l", "e", " ", "d", "e",
      "m", "a", "n", "d", "e", "u", "r", " ", "d", "e", "s", " ", "d", "é",
      "l", "a", "i", "s", " ", "e", "t", " ", "v", "a", "l", "i", "d", "a",
      "t", "i", "o", "n", "s", " ", "n", "é", "c", "e", "s", "s", "a", "i",
      "r", "e", "s", ".">>

PlanDemande4 ==
    <<"C", "o", "n", "f", "i", "r", "m", "e", "r", " ", "l", "a", " ", "b",
      "o", "n", "n", "e", " ", "e", "x", "é", "c", "u", "t", "i", "o", "n",
      " ", "e", "t", " ", "c", "l", "o", "r", "e", " ", "l", "a", " ", "d",
      "e", "m", "a", "n", "d", "e", ".">>

PlanDemande == <<PlanDemande1, PlanDemande2, PlanDemande3, PlanDemande4>>

PlanQuestion1 ==
    <<"Q", "u", "a", "l", "i", "f", "i", "e", "r", " ", "l", "a", " ", "q",
      "u", "e", "s", "t", "i", "o", "n", " ", "e", "t", " ", "v", "é", "r",
      "i", "f", "i", "e", "r", " ", "l", "a", " ", "d", "o", "c", "u", "m",
      "e", "n", "t", "a", "t", "i", "o", "n", " ", "e", "x", "i", "s", "t",
      "a", "n", "t", "e", ".">>

PlanQuestion2 ==
    <<"F", "o", "u", "r", "n", "i", "r", " ", "l", "'", "e", "x", "p", "l",
      "i", "c", "a", "t", "i", "o", "n", " ", "o", "u", " ", "l", "e", " ",
      "l", "i", "e", "n", " ", "v", "e", "r", "s", " ", "l", "a", " ", "p",
      "r", "o", "c", "é", "d", "u", "r", "e", " ", "a", "d", "a", "p", "t",
      "é", "e", ".">>

PlanQuestion3 ==
    <<"P", "r", "o", "p", "o", "s", "e", "r", ",", " ", "s", "i", " ", "n",
      "é", "c", "e", "s", "s", "a", "i", "r", "e", ",", " ", "u", "n", " ",
      "r", "e", "n", "d", "e", "z", "-", "v", "o", "u", "s", " ", "c", "o",
      "u", "r", "t", " ", "p", "o", "u", "r", " ", "c", "l", "a", "r", "i",
      "f", "i", "e", "r", ".">>

PlanQuestion == <<PlanQuestion1, PlanQuestion2, PlanQuestion3>>

TxtNoSources ==
    <<"S", "o", "u", "r", "c", "e", "s", ":", " ", "(", "a", "u", "c", "u",
      "n", "e", " ", "r", "é", "f", "é", "r", "e", "n", "c", "e", " ", "t",
      "r", "o", "u", "v", "é", "e", ")">>

TxtSources ==
    <<"S", "o", "u", "r", "c", "e", "s", ":">>

TxtUnknown ==
    <<"(", "i", "n", "c", "o", "n", "n", "u", ")">>

TxtRefs ==
    <<"R", "é", "f", "é", "r", "e", "n", "c", "e", "s", " ", "d", "é", "t",
      "e", "c", "t", "é", "e", "s", " ", ":", " ">>

TxtLinks ==
    <<"L", "i", "e", "n", "s", " ", "m", "e", "n", "t", "i", "o", "n", "n",
      "é", "s", " ", ":", " ">>

_security_note ==
    <<"S", "é", "c", "u", "r", "i", "t", "é", " ", ":", " ", "N", "e", " ",
      "p", "a", "r", "t", "a", "g", "e", "z", " ", "j", "a", "m", "a", "i",
      "s", " ", "d", "e", " ", "m", "o", "t", " ", "d", "e", " ", "p", "a",
      "s", "s", "e", " ", "e", "n", " ", "c", "l", "a", "i", "r", ".", " ",
      "N", "e", " ", "c", "o", "m", "m", "u", "n", "i", "q", "u", "e", "z",
      " ", "p", "a", "s", " ", "d", "'", "i", "n", "f", "o", "r", "m", "a",
      "t", "i", "o", "n", "s", " ", "s", "e", "n", "s", "i", "b", "l", "e",
      "s", " ", "(", "c", "l", "é", "s", ",", " ", "t", "o", "k", "e", "n",
      "s", ")", " ", "p", "a", "r", " ", "e", "-", "m", "a", "i", "l", ".">>

TxtSignature ==
    <<"\n", "C", "o", "r", "d", "i", "a", "l", "e", "m", "e", "n", "t",
      ",", "\n", "L", "'", "é", "q", "u", "i", "p", "e", " ", "S", "u",
      "p", "p", "o", "r", "t">>

TxtNoSubject ==
    <<"(", "s", "a", "n", "s", " ", "o", "b", "j", "e", "t", ")">>

TxtObjet ==
    <<"O", "b", "j", "e", "t", ":", " ", "R", "E", ":", " ">>

\* s.startswith(p)
StartsWith(s, p) == Len(p) <= Len(s) /\ SubSeq(s, 1, Len(p)) = p

\* s.splitlines(), the line ends being "\r\n", "\n", "\r" and "\f".
RECURSIVE SplitLines(_, _)
SplitLines(s, cur) ==
    IF s = <<>> THEN (IF cur = <<>> THEN <<>> ELSE <<cur>>)
    ELSE IF Len(s) >= 2 /\ s[1] = "\r" /\ s[2] = "\n"
         THEN <<cur>> \o SplitLines(Tail(Tail(s)), <<>>)
    ELSE IF Head(s) \in {"\n", "\r", "\f"} THEN <<cur>> \o SplitLines(Tail(s), <<>>)
    ELSE SplitLines(Tail(s), Append(cur, Head(s)))

\* sep.join(parts)
RECURSIVE JoinWith(_, _)
JoinWith(parts, sep) ==
    IF parts = <<>> THEN <<>>
    ELSE IF Len(parts) = 1 THEN Head(parts)
    ELSE Head(parts) \o sep \o JoinWith(Tail(parts), sep)

\* [part for part in parts if part]
RECURSIVE NonEmpty(_)
NonEmpty(parts) ==
    IF parts = <<>> THEN <<>>
    ELSE (IF Head(parts) = <<>> THEN <<>> ELSE <<Head(parts)>>) \o NonEmpty(Tail(parts))

\* email.utils.parseaddr, the parser of address headers: the sets of
\* characters it tests.  Positions count from 1.
Specials == {"(", ")", "<", ">", "@", ",", ":", ";", ".", "\"", "[", "]"}

LWS == {" ", "\t"}

CR == {"\r", "\n"}

FWS == LWS \cup CR

AtomEnds == Specials \cup FWS

PhraseEnds == AtomEnds \ {"."}

\* A fragment read and the position after it.
Read(s, pos) == [s |-> s, pos |-> pos]

\* getdelimited past its begin character: the fragment up to one of endchars,
\* a backslash quoting the next character, nested comments read when allowed.
RECURSIVE DelimitedFrom(_, _, _, _, _, _), DelimitedAfter(_, _, _, _, _)
DelimitedFrom(field, pos, endchars, allowcomments, quote, acc) ==
    IF pos > Len(field) THEN Read(acc, pos)
    ELSE IF quote
         THEN DelimitedFrom(field, pos + 1, endchars, allowcomments, FALSE,
                            Append(acc, field[pos]))
    ELSE IF field[pos] \in endchars THEN Read(acc, pos + 1)
    ELSE IF allowcomments /\ field[pos] = "("
         THEN DelimitedAfter(field,
                             DelimitedFrom(field, pos + 1, {")", "\r"}, TRUE, FALSE, <<>>),
                             endchars, allowcomments, acc)
    ELSE IF field[pos] = "\\"
         THEN DelimitedFrom(field, pos + 1, endchars, allowcomments, TRUE, acc)
    ELSE DelimitedFrom(field, pos + 1, endchars, allowcomments, FALSE,
                       Append(acc, field[pos]))

DelimitedAfter(field, c, endchars, allowcomments, acc) ==
    DelimitedFrom(field, c.pos, endchars, allowcomments, FALSE, acc \o c.s)

getdelimited(field, pos, beginchar, endchars, allowcomments) ==
    IF field[pos] # beginchar THEN Read(<<>>, pos)
    ELSE DelimitedFrom(field, pos + 1, endchars, allowcomments, FALSE, <<>>)

getquote(field, pos) == getdelimited(field, pos, "\"", {"\"", "\r"}, FALSE)

getcomment(field, pos) == getdelimited(field, pos, "(", {")", "\r"}, TRUE)

RECURSIVE getatom(_, _, _, _)
getatom(field, pos, atomends, acc) ==
    IF pos > Len(field) \/ field[pos] \in atomends THEN Read(acc, pos)
    ELSE getatom(field, pos + 1, atomends, Append(acc, field[pos]))

\* The parser at a position with the comments collected so far.
At(pos, commentlist) == [pos |-> pos, cl |-> commentlist]

\* self.commentlist.append(self.getcomment())
WithComment(st, c) == At(c.pos, Append(st.cl, c.s))

\* gotonext: white space skipped, comments collected.  The white space it
\* returns only enters the address, which _guess_salutation does not read.
RECURSIVE gotonext(_, _)
gotonext(field, st) ==
    IF st.pos > Len(field) THEN st
    ELSE IF field[st.pos] \in FWS THEN gotonext(field, At(st.pos + 1, st.cl))
    ELSE IF field[st.pos] = "(" THEN gotonext(field, WithComment(st, getcomment(field, st.pos)))
    ELSE st

\* getdomain, as it moves the position and collects comments.
RECURSIVE getdomain(_, _)
getdomain(field, st) ==
    IF st.pos > Len(field) THEN st
    ELSE IF field[st.pos] \in LWS THEN getdomain(field, At(st.pos + 1, st.cl))
    ELSE IF field[st.pos] = "("
         THEN getdomain(field, WithComment(st, getcomment(field, st.pos)))
    ELSE IF field[st.pos] = "["
         THEN getdomain(field,
                        At(getdelimited(field, st.pos, "[", {"]", "\r"}, FALSE).pos, st.cl))
    ELSE IF field[st.pos] = "." THEN getdomain(field, At(st.pos + 1, st.cl))
    ELSE IF field[st.pos] = "@" THEN st
    ELSE IF field[st.pos] \in AtomEnds THEN st
    ELSE getdomain(field, At(getatom(field, st.pos, AtomEnds, <<>>).pos, st.cl))

\* The loop of getaddrspec over the local part.
RECURSIVE AddrSpecLoop(_, _)
AddrSpecLoop(field, st) ==
    IF st.pos > Len(field) THEN st
    ELSE IF field[st.pos] = "."
         THEN AddrSpecLoop(field, gotonext(field, At(st.pos + 1, st.cl)))
    ELSE IF field[st.pos] = "\""
         THEN AddrSpecLoop(field, gotonext(field, At(getquote(field, st.pos).pos, st.cl)))
    ELSE IF field[st.pos] \in AtomEnds THEN st
    ELSE AddrSpecLoop(field,
                      gotonext(field, At(getatom(field, st.pos, AtomEnds, <<>>).pos, st.cl)))

\* The end of getaddrspec: the domain after "@".
AddrSpecEnd(field, st) ==
    IF st.pos > Len(field) \/ field[st.pos] # "@" THEN st
    ELSE getdomain(field, gotonext(field, At(st.pos + 1, st.cl)))

\* getaddrspec, as it moves the position and collects comments.
getaddrspec(field, st) == AddrSpecEnd(field, AddrSpecLoop(field, gotonext(field, st)))

\* self.pos += 1
Bump(st) == At(st.pos + 1, st.cl)

\* The loop of getrouteaddr.
RECURSIVE RouteLoop(_, _, _)
RouteLoop(field, st, expectroute) ==
    IF st.pos > Len(field) THEN st
    ELSE IF expectroute THEN RouteLoop(field, gotonext(field, getdomain(field, st)), FALSE)
    ELSE IF field[st.pos] = ">" THEN Bump(st)
    ELSE IF field[st.pos] = "@" THEN RouteLoop(field, gotonext(field, Bump(st)), TRUE)
    ELSE IF field[st.pos] = ":" THEN RouteLoop(field, gotonext(field, Bump(st)), FALSE)
    ELSE Bump(getaddrspec(field, st))

getrouteaddr(field, st) ==
    IF field[st.pos] # "<" THEN st ELSE RouteLoop(field, gotonext(field, Bump(st)), FALSE)

\* getphraselist: the words of the phrase, the position and the comments.
Phrase(st, plist) == [pos |-> st.pos, cl |-> st.cl, plist |-> plist]

RECURSIVE PhraseLoop(_, _, _), PhraseWord(_, _, _, _)
PhraseLoop(field, st, plist) ==
    IF st.pos > Len(field) THEN Phrase(st, plist)
    ELSE IF field[st.pos] \in FWS THEN PhraseLoop(field, Bump(st), plist)
    ELSE IF field[st.pos] = "\"" THEN PhraseWord(field, st, plist, getquote(field, st.pos))
    ELSE IF field[st.pos] = "("
         THEN PhraseLoop(field, WithComment(st, getcomment(field, st.pos)), plist)
    ELSE IF field[st.pos] \in PhraseEnds THEN Phrase(st, plist)
    ELSE PhraseWord(field, st, plist, getatom(field, st.pos, PhraseEnds, <<>>))

PhraseWord(field, st, plist, w) == PhraseLoop(field, At(w.pos, st.cl), Append(plist, w.s))

getphraselist(field, st) == PhraseLoop(field, st, <<>>)

\* SPACE.join(parts)
Spaced(parts) == JoinWith(parts, <<" ">>)

\* The display names of the addresses read and the position after them.
Named(names, pos) == [names |-> names, pos |-> pos]

\* The end of getaddress: gotonext, then a comma is skipped.
SkipComma(field, names, pos) ==
    Named(names, IF pos <= Len(field) /\ field[pos] = "," THEN pos + 1 ELSE pos)

AddressEnd(field, names, st) == SkipComma(field, names, gotonext(field, st).pos)

\* The display name of a phrase followed by a route address.
RouteName(plist, commentlist) ==
    IF commentlist # <<>>
    THEN Spaced(plist) \o <<" ", "(">> \o Spaced(commentlist) \o <<")">>
    ELSE Spaced(plist)

\* An address that is an addr-spec: its display name is the comments.
AddressNamed(field, st) == AddressEnd(field, <<Spaced(st.cl)>>, st)

\* A phrase then a route address.
RouteNamed(field, plist, st) == AddressEnd(field, <<RouteName(plist, st.cl)>>, st)

\* A group: the addresses read up to its ";".
GroupEnd(field, g) == AddressEnd(field, g.names, At(g.pos, <<>>))

\* getaddress: the display names of the addresses it returns (one, none, or
\* those of a group) and the position it stops at.
RECURSIVE getaddress(_, _), AddressFrom(_, _), AddressPhrase(_, _, _),
          AddressBody(_, _, _, _), GroupLoop(_, _, _), GroupStep(_, _, _),
          GroupNext(_, _, _)
AddressBody(field, oldpos, plist, st) ==
    IF st.pos > Len(field)
    THEN AddressEnd(field, IF plist # <<>> THEN <<Spaced(st.cl)>> ELSE <<>>, st)
    ELSE IF field[st.pos] \in {".", "@"}
         THEN AddressNamed(field, getaddrspec(field, At(oldpos, st.cl)))
    ELSE IF field[st.pos] = ":"
         THEN GroupEnd(field, GroupLoop(field, st.pos + 1, <<>>))
    ELSE IF field[st.pos] = "<"
         THEN RouteNamed(field, plist, getrouteaddr(field, st))
    ELSE IF plist # <<>> THEN AddressEnd(field, <<Spaced(st.cl)>>, st)
    ELSE IF field[st.pos] \in Specials THEN AddressEnd(field, <<>>, Bump(st))
    ELSE AddressEnd(field, <<>>, st)

GroupLoop(field, pos, names) ==
    IF pos > Len(field) THEN Named(names, pos)
    ELSE GroupStep(field, gotonext(field, At(pos, <<>>)).pos, names)

GroupStep(field, pos, names) ==
    IF pos <= Len(field) /\ field[pos] = ";" THEN Named(names, pos + 1)
    ELSE GroupNext(field, getaddress(field, pos), names)

GroupNext(field, a, names) == GroupLoop(field, a.pos, names \o a.names)

AddressPhrase(field, ph, oldpos) ==
    AddressBody(field, oldpos, ph.plist, gotonext(field, At(ph.pos, ph.cl)))

AddressFrom(field, st) == AddressPhrase(field, getphraselist(field, st), st.pos)

getaddress(field, pos) == AddressFrom(field, gotonext(field, At(pos, <<>>)))

\* parseaddr(s)[0] for a non-empty s: the display name of the first address
\* of the list, '' when the first getaddress gives none.
DisplayName(s) ==
    IF getaddress(s, 1).names = <<>> THEN <<>> ELSE getaddress(s, 1).names[1]

\* A text returned, or the exception that ended the call.
Said(text) == [raised |-> FALSE, text |-> text]

Failed == [raised |-> TRUE, text |-> <<>>]

\* s.split()[0] of a text with a word in it.
RECURSIVE WordAt(_)
WordAt(s) ==
    IF s = <<>> \/ IsSpace(Head(s)) THEN <<>> ELSE <<Head(s)>> \o WordAt(Tail(s))

FirstWord(s) == WordAt(LStrip(s))

\* if display: first = display.strip().split()[0], an IndexError when the
\* display name is blank.
Salute(display) ==
    IF display = <<>> THEN Said(TxtBonjour)
    ELSE IF Strip(display) = <<>> THEN Failed
    ELSE Said(TxtBonjourName \o FirstWord(display) \o <<",">>)

_guess_salutation(name_or_email) ==
    IF OrEmpty(name_or_email) = <<>> THEN Said(TxtBonjour)
    ELSE Salute(DisplayName(OrEmpty(name_or_email)))

\* re.match(r"^\s*\d+\.\s+", line)
StepLine(line) == StepFrom(line, SkipSpaces(line, 1))

\* The cleaned numbered lines among lines.
RECURSIVE StepLines(_)
StepLines(lines) ==
    IF lines = <<>> THEN <<>>
    ELSE (IF StepLine(Head(lines)) THEN <<Strip(Head(lines))>> ELSE <<>>)
         \o StepLines(Tail(lines))

\* The loop over the snippets, left once four steps are collected.
RECURSIVE CollectSteps(_, _)
CollectSteps(snippets, steps) ==
    IF snippets = <<>> \/ Len(steps) >= 4 THEN steps
    ELSE CollectSteps(Tail(snippets),
                      steps \o StepLines(SplitLines(Head(snippets).content, <<>>)))

FallbackPlan(fallback_type) ==
    IF fallback_type = "incident" THEN PlanIncident
    ELSE IF fallback_type = "demande" THEN PlanDemande
    ELSE PlanQuestion

OrPlan(steps, fallback_type) ==
    TopK(IF steps = <<>> THEN FallbackPlan(fallback_type) ELSE steps, 4)

_make_steps_from_snippets(snippets, fallback_type) ==
    OrPlan(CollectSteps(snippets, <<>>), fallback_type)

\* f"{i+1}. {s}" for each step.
NumberedLines(steps) ==
    [i \in 1..Len(steps) |-> Digits(i) \o <<".", " ">> \o steps[i]]

\* The components of a path: the text between "/", the empty ones and the
\* "." ones dropped.
RECURSIVE PathParts(_, _)
PathParts(src, cur) ==
    IF src = <<>>
    THEN (IF cur = <<>> \/ cur = <<".">> THEN <<>> ELSE <<cur>>)
    ELSE IF Head(src) = "/"
         THEN (IF cur = <<>> \/ cur = <<".">> THEN <<>> ELSE <<cur>>)
              \o PathParts(Tail(src), <<>>)
    ELSE PathParts(Tail(src), Append(cur, Head(src)))

\* Path(src).name: the last component, '' when there is none.
PathName(src) ==
    IF PathParts(src, <<>>) = <<>> THEN <<>>
    ELSE PathParts(src, <<>>)[Len(PathParts(src, <<>>))]

\* The names of seq not seen yet, in order.
RECURSIVE Unseen(_, _)
Unseen(names, seen) ==
    IF names = <<>> THEN <<>>
    ELSE IF Head(names) \in seen THEN Unseen(Tail(names), seen)
    ELSE <<Head(names)>> \o Unseen(Tail(names), seen \cup {Head(names)})

Dashed(names) == [i \in 1..Len(names) |-> <<"-", " ">> \o names[i]]

SourceName(src) == IF src = <<>> THEN TxtUnknown ELSE PathName(src)

_sources_block(snippets) ==
    IF snippets = <<>> THEN TxtNoSources
    ELSE TxtSources \o <<"\n">>
         \o JoinWith(Dashed(Unseen([i \in 1..Len(snippets) |->
                                       SourceName(snippets[i].source)], {})),
                     <<"\n">>)

\* "".join(opening_parts)
Opening(salutation, rd) ==
    salutation \o <<"\n">>
    \o (IF rd.type = "incident"
        THEN (IF rd.urgency \in {"critique", "haute"} THEN OpenPriority ELSE OpenIncident)
        ELSE IF rd.type = "demande" THEN OpenDemande
        ELSE OpenQuestion)

\* refs_block, from the identifiers and the URLs extracted from the email.
RefsBlock(ids, urls) ==
    JoinWith((IF ids # <<>> THEN <<TxtRefs \o JoinWith(TopK(ids, 5), <<",", " ">>)>>
              ELSE <<>>)
             \o (IF urls # <<>> THEN <<TxtLinks \o JoinWith(TopK(urls, 5), <<",", " ">>)>>
                 ELSE <<>>),
             <<"\n">>)

ReplyBody(email, ctx) ==
    JoinWith(NonEmpty(<<Opening(_guess_salutation(email.from_).text, ctx.routing),
                        JoinWith(NumberedLines(_make_steps_from_snippets(
                                     ctx.snippets, ctx.routing.type)), <<"\n">>),
                        RefsBlock(ctx.extracted_ids, ctx.extracted_urls),
                        _security_note,
                        _sources_block(ctx.snippets),
                        TxtSignature>>),
             <<"\n">>)

SubjectLine(email) ==
    IF OrEmpty(email.subject) = <<>> THEN TxtNoSubject ELSE OrEmpty(email.subject)

\* suggest_reply: the text returned, or the exception of _guess_salutation.
suggest_reply(email, ctx) ==
    IF _guess_salutation(email.from_).raised THEN Failed
    ELSE Said(TxtObjet \o SubjectLine(email) \o <<"\n", "\n">>
              \o ReplyBody(email, ctx) \o <<"\n">>)

\* build_context, the lists extracted from the email given.
build_context(routing_decision, snippets, ids, urls) ==
    [routing |-> routing_decision, snippets |-> snippets,
     extracted_ids |-> ids, extracted_urls |-> urls]

(***************************************************************************)
(* Agent turn (app/agent_graph.py)                                         *)
(***************************************************************************)

\* The literal texts of agent_graph.py.
TxtNothingFound ==
    <<"J", "e", " ", "n", "'", "a", "i", " ", "t", "r", "o", "u", "v", "é",
      " ", "a", "u", "c", "u", "n", "e", " ", "i", "n", "f", "o", "r", "m",
      "a", "t", "i", "o", "n", " ", "p", "e", "r", "t", "i", "n", "e", "n",
      "t", "e", " ", "d", "a", "n", "s", " ", "l", "a", " ", "b", "a", "s",
      "e", ".">>

TxtSynthesis ==
    <<"V", "o", "i", "c", "i", " ", "d", "e", "s", " ", "é", "l", "é", "m",
      "e", "n", "t", "s", " ", "d", "e", " ", "r", "é", "p", "o", "n", "s",
      "e", " ", "b", "a", "s", "é", "s", " ", "s", "u", "r", " ", "l", "a",
      " ", "d", "o", "c", "u", "m", "e", "n", "t", "a", "t", "i", "o", "n",
      " ", ":">>

TxtNeutral ==
    <<"J", "e", " ", "n", "'", "a", "i", " ", "p", "a", "s", " ", "p", "u",
      " ", "g", "é", "n", "é", "r", "e", "r", " ", "d", "e", " ", "r", "é",
      "p", "o", "n", "s", "e", ".">>

\* line.strip().startswith(("1.", "2.", "3.", "4."))
StartsNumbered(line) ==
    \E d \in {"1", "2", "3", "4"} : StartsWith(Strip(line), <<d, ".">>)

\* The stripped lines of the snippets that start with a number, in order.
RECURSIVE NumberedOf(_)
NumberedOf(lines) ==
    IF lines = <<>> THEN <<>>
    ELSE (IF StartsNumbered(Head(lines)) THEN <<Strip(Head(lines))>> ELSE <<>>)
         \o NumberedOf(Tail(lines))

\* The two loops of node_format_without_email, left once four steps are
\* collected.
RECURSIVE FormatSteps(_, _)
FormatSteps(snips, steps) ==
    IF snips = <<>> \/ Len(steps) >= 4 THEN TopK(steps, 4)
    ELSE FormatSteps(Tail(snips),
                     steps \o NumberedOf(SplitLines(Head(snips).content, <<>>)))

\* The "- name" lines of the sources block.
SourceLines(snips) ==
    Dashed(Unseen([i \in 1..Len(snips) |-> PathName(snips[i].source)], {<<>>}))

WithBlank(steps) == IF steps = <<>> THEN <<>> ELSE Append(steps, <<>>)

WithTitle(src_lines) == IF src_lines = <<>> THEN <<>> ELSE <<TxtSources>> \o src_lines

\* final_text of node_format_without_email.
FormatText(snips) ==
    IF snips = <<>> THEN TxtNothingFound
    ELSE JoinWith(<<TxtSynthesis, <<>>>>
                  \o WithBlank(FormatSteps(snips, <<>>))
                  \o WithTitle(SourceLines(snips))
                  \o <<TxtSignature>>,
                  <<"\n">>)

\* k of the call of retrieve_snippets in node_retrieve.
TurnK == 3

SenderAna == <<"A", "n", "a", " ", "<", "a", "@", "b", ">">>

SenderBare == <<"a", "@", "b">>

TurnSubjects == {<<>>, <<SubjIncident>>, <<SubjPlain>>}

TurnBodies == {MailBonjour, MailUrgent \o <<" ">> \o MailProduction}

\* A sender whose display name is one blank: "\" \" <a@b>".
SenderBlank == <<"\"", " ", "\"", " ", "<", "a", "@", "b", ">">>

Senders == {<<>>, <<SenderAna>>, <<SenderBare>>, <<SenderBlank>>}

\* email_obj: None (<<>>) or an Email.
TurnEmails ==
    {<<>>} \cup {<<[subject |-> s, body |-> b, from_ |-> f]>> :
                    s \in TurnSubjects, b \in TurnBodies, f \in Senders}

\* What extract_ids and extract_urls may give for an email.
ExtractedIds == {<<>>, <<<<"I", "N", "C", "-", "1">>>>}

ExtractedUrls == {<<>>, <<<<"h", "t", "t", "p", ":", "/", "/", "x">>>>}

\* The knowledge bases: any documents under the file names.
Corpora == UNION {[S -> DocTexts] : S \in SUBSET Files}

\* run_turn: the initial agent state, the graph at its entry point.
TurnCall(query, email) ==
    [op |-> "run_turn", pc |-> "retrieve", query |-> query, email |-> email,
     snippets |-> <<>>, reply_text |-> <<>>, final_text |-> <<>>,
     trace |-> <<>>, result |-> <<>>]

TurnInit ==
    /\ kb \in Corpora
    /\ index \in {<<>>, IndexOf(_read_kb_docs(kb))}
    /\ call \in {TurnCall(q, e) : q \in Queries, e \in TurnEmails}

\* branch_on_email
branch_on_email(state) ==
    IF state.email # <<>> THEN "reply" ELSE "format_without_email"

\* node_retrieve once retrieve_snippets has ended with r.
Retrieved(state, r) ==
    IF r.raised
    THEN [state EXCEPT !.pc = "raised", !.trace = Append(@, "retrieve")]
    ELSE [state EXCEPT !.snippets = r.top, !.trace = Append(@, "retrieve"),
                       !.pc = branch_on_email(state)]

node_retrieve ==
    /\ call.op = "run_turn"
    /\ call.pc = "retrieve"
    /\ \E dist \in [1..Len(index) -> 0..MaxDist] :
          call' = Retrieved(call, retrieve_snippets(call.query, TurnK, kb,
                      similarity_search_with_score(index, dist, Max(TurnK, MinFetch))))
    /\ UNCHANGED <<kb, index>>

\* node_retrieve when the similarity search raises.
NodeRetrieveSearchFails ==
    /\ call.op = "run_turn"
    /\ call.pc = "retrieve"
    /\ call' = Retrieved(call, retrieve_snippets(call.query, TurnK, kb, <<>>))
    /\ UNCHANGED <<kb, index>>

\* node_retrieve when FastEmbedEmbeddings() or Chroma() raises: the exception
\* leaves retrieve_snippets, the node, graph.invoke and run_turn.
NodeRetrieveOpenFails ==
    /\ call.op = "run_turn"
    /\ call.pc = "retrieve"
    /\ call' = Retrieved(call, Raised)
    /\ UNCHANGED <<kb, index>>

\* node_reply once suggest_reply has ended with r: the text is stored, or
\* the exception leaves the node, graph.invoke and run_turn.
Replied(state, r) ==
    IF r.raised
    THEN [state EXCEPT !.pc = "raised", !.trace = Append(@, "reply")]
    ELSE [state EXCEPT !.reply_text = <<r.text>>, !.trace = Append(@, "reply"),
                       !.pc = "end"]

\* node_reply: an Email object is always true.
node_reply ==
    /\ call.op = "run_turn"
    /\ call.pc = "reply"
    /\ \E ids \in ExtractedIds, urls \in ExtractedUrls :
          call' = IF call.email # <<>>
                  THEN Replied(call,
                               suggest_reply(call.email[1],
                                   build_context(classify_email(call.email[1]),
                                                 call.snippets, ids, urls)))
                  ELSE [call EXCEPT !.trace = Append(@, "reply"), !.pc = "end"]
    /\ UNCHANGED <<kb, index>>

node_format_without_email ==
    /\ call.op = "run_turn"
    /\ call.pc = "format_without_email"
    /\ call' = [call EXCEPT !.final_text = <<FormatText(call.snippets)>>,
                            !.trace = Append(@, "format_without_email"),
                            !.pc = "end"]
    /\ UNCHANGED <<kb, index>>

\* The text run_turn returns from the final state.
TurnText(out_state) ==
    IF OrEmpty(out_state.reply_text) # <<>> THEN OrEmpty(out_state.reply_text)
    ELSE IF OrEmpty(out_state.final_text) # <<>> THEN OrEmpty(out_state.final_text)
    ELSE TxtNeutral

run_turn ==
    /\ call.op = "run_turn"
    /\ call.pc = "end"
    /\ call' = [call EXCEPT !.result = <<TurnText(call)>>, !.pc = "returned"]
    /\ UNCHANGED <<kb, index>>

TurnNext ==
    \/ node_retrieve
    \/ NodeRetrieveSearchFails
    \/ NodeRetrieveOpenFails
    \/ node_reply
    \/ node_format_without_email
    \/ run_turn

SpecTurn == TurnInit /\ [][TurnNext]_vars

\* The nodes a turn with this email runs, in order.
Path(email) ==
    <<"retrieve", IF email # <<>> THEN "reply" ELSE "format_without_email">>

\* The nodes run so far are the first ones of the path, all of them once the
\* graph has ended.
PathFollowed ==
    /\ call.trace = SubSeq(Path(call.email), 1, Len(call.trace))
    /\ call.pc \in {"end", "returned"} => call.trace = Path(call.email)

\* The text returned is the formatted reply iff an email is present, else the
\* synthesis of the snippets or the text for no snippet, and never the
\* neutral text.
TextAsClaimed ==
    call.pc = "returned" =>
        /\ StartsWith(call.result[1], <<"O", "b", "j", "e", "t", ":", " ", "R", "E", ":">>)
               <=> call.email # <<>>
        /\ call.email # <<>> => call.result = call.reply_text
        /\ call.email = <<>> =>
              /\ call.result = call.final_text
              /\ call.snippets = <<>> => call.result[1] = TxtNothingFound
              /\ call.snippets # <<>> => StartsWith(call.result[1], TxtSynthesis)
        /\ call.result[1] # TxtNeutral

TurnAsClaimed == call.op = "run_turn" => (PathFollowed /\ TextAsClaimed)

\* C17: every run_turn runs the retrieve node once, then the reply node if
\* an email is present and the format_without_email node if not, then ends;
\* the text returned is the formatted reply, starting with "Objet: RE:", iff
\* an email is present, else the snippet synthesis or the text for no
\* snippet, and never the neutral text.
Turn_C17 ==
    /\ TurnAsClaimed
    /\ call.op = "run_turn" => call.pc # "raised"

====
